---------------------------- MODULE Spec2Model ----------------------------
(***************************************************************************)
(* Model of the portfolio back-testing engine (app/services, app/utils).   *)
(*                                                                         *)
(* Numbers.  The program computes with Python floats; the model computes   *)
(* with exact rationals <<n, d>> (d > 0, lowest terms), so that a share    *)
(* count such as 1000 * 0.6 / 3 is a value of its own and not a rounded    *)
(* integer.  Prices, amounts and weights are drawn from small integer      *)
(* sets.                                                                   *)
(*                                                                         *)
(* Dates.  A date is <<year, month, day>>; the 'YYYY-MM-DD' strings of the *)
(* program compare as these tuples do.                                     *)
(*                                                                         *)
(* Calls.  A pure function of the program is an operator; the variables    *)
(* args and ret hold the arguments and the return value of one call of it. *)
(* The simulation loops are stepped one trading date per action, their     *)
(* locals in loc.                                                          *)
(***************************************************************************)
EXTENDS Integers, Sequences, FiniteSets, TLC

VARIABLES
    args,       \* the arguments of the call under way
    ret,        \* its return value, once pc = "done"
    pc,         \* "call" before the call returns, "done" after
    loc,        \* the locals of the simulation loop under way
    transactions,   \* EnhancedBacktestService.transactions, the ledger
    history     \* the runs made so far: what each was given and returned

vars == <<args, ret, pc, loc, transactions, history>>

Idle == "idle"

\* The state of the services, which a call of a calculator function neither
\* reads nor writes.
services == <<transactions, history>>
ServicesIdle == transactions = <<>> /\ history = <<>>

---------------------------------------------------------------------------
(* Exact arithmetic standing for the float arithmetic of the program.      *)

RECURSIVE GCD(_, _)
GCD(a, b) == IF b = 0 THEN a ELSE GCD(b, a % b)

Abs(n) == IF n < 0 THEN -n ELSE n

Norm(n, d) ==
    LET s == IF d < 0 THEN -1 ELSE 1
        g == GCD(Abs(n), Abs(d))
    IN  IF n = 0 THEN <<0, 1>> ELSE <<(s * n) \div g, (s * d) \div g>>

R(n) == <<n, 1>>

\* Sums and comparisons go through the least common denominator and products
\* are reduced crosswise first, which keeps the integers small.
RAdd(a, b) ==
    LET g == GCD(a[2], b[2])
    IN  Norm(a[1] * (b[2] \div g) + b[1] * (a[2] \div g), (a[2] \div g) * b[2])
RNeg(a) == <<-a[1], a[2]>>
RSub(a, b) == RAdd(a, RNeg(b))
RMul(a, b) ==
    LET g == IF a[1] = 0 THEN 1 ELSE GCD(Abs(a[1]), b[2])
        h == IF b[1] = 0 THEN 1 ELSE GCD(Abs(b[1]), a[2])
    IN  Norm((a[1] \div g) * (b[1] \div h), (a[2] \div h) * (b[2] \div g))
RDiv(a, b) == RMul(a, IF b[1] < 0 THEN <<-b[2], -b[1]>> ELSE <<b[2], b[1]>>)
RLt(a, b) ==
    LET g == GCD(a[2], b[2])
    IN  a[1] * (b[2] \div g) < b[1] * (a[2] \div g)
RLe(a, b) ==
    LET g == GCD(a[2], b[2])
    IN  a[1] * (b[2] \div g) <= b[1] * (a[2] \div g)
RAbs(a) == <<Abs(a[1]), a[2]>>

RECURSIVE SeqsUpTo(_, _)
SeqsUpTo(S, n) ==
    IF n = 0 THEN {<<>>}
    ELSE LET shorter == SeqsUpTo(S, n - 1)
         IN  shorter \cup {Append(s, x) : s \in {t \in shorter : Len(t) = n - 1}, x \in S}

---------------------------------------------------------------------------
(* FinancialCalculator.calculate_max_drawdown                              *)

MaxValues == 4
MaxValue == 3

\* One pass of the scan: the running peak is raised first, then the
\* drawdown of this value from the peak is compared with the worst so far.
DrawdownScan(st, values, i) ==
    LET value == values[i]
        peak == IF RLt(st.peak, value) THEN value ELSE st.peak
        peak_idx == IF RLt(st.peak, value) THEN i - 1 ELSE st.peak_idx
        drawdown == IF RLt(R(0), peak)
                    THEN RMul(RDiv(RSub(peak, value), peak), R(100))
                    ELSE R(0)
    IN  IF RLt(st.max_dd, drawdown)
        THEN [peak |-> peak, peak_idx |-> peak_idx, max_dd |-> drawdown,
              max_dd_peak_idx |-> peak_idx, max_dd_trough_idx |-> i - 1]
        ELSE [st EXCEPT !.peak = peak, !.peak_idx = peak_idx]

RECURSIVE DrawdownLoop(_, _, _)
DrawdownLoop(st, values, i) ==
    IF i > Len(values) THEN st
    ELSE DrawdownLoop(DrawdownScan(st, values, i), values, i + 1)

DrawdownReturnPositive(st) ==
    [dd |-> st.max_dd, peak_idx |-> st.max_dd_peak_idx,
     trough_idx |-> st.max_dd_trough_idx]

DrawdownReturn(st) ==
    [dd |-> RNeg(st.max_dd), peak_idx |-> st.max_dd_peak_idx,
     trough_idx |-> st.max_dd_trough_idx]

calculate_max_drawdown(values) ==
    IF Len(values) < 2
    THEN [dd |-> R(0), peak_idx |-> 0, trough_idx |-> 0]
    ELSE DrawdownReturn(
            DrawdownLoop([peak |-> values[1], peak_idx |-> 0, max_dd |-> R(0),
                          max_dd_peak_idx |-> 0, max_dd_trough_idx |-> 0],
                         values, 1))

InitDrawdown ==
    /\ args \in SeqsUpTo(0..MaxValue, MaxValues)
    /\ ret = Idle
    /\ pc = "call"
    /\ loc = Idle
    /\ ServicesIdle

CallMaxDrawdown ==
    /\ pc = "call"
    /\ ret' = calculate_max_drawdown([i \in 1..Len(args) |-> R(args[i])])
    /\ pc' = "done"
    /\ UNCHANGED <<args, loc, services>>

NextDrawdown == CallMaxDrawdown

SpecDrawdown == InitDrawdown /\ [][NextDrawdown]_vars

NonDecreasing(values) ==
    \A i \in 1..(Len(values) - 1) : values[i] <= values[i + 1]

\* C9: the drawdown percentage returned is never positive, and it is exactly 0
\* for a non-decreasing series and for a series of fewer than two values.
C9_DrawdownNeverPositive ==
    pc = "done" =>
        /\ RLe(ret.dd, R(0))
        /\ (NonDecreasing(args) \/ Len(args) < 2) => ret.dd = R(0)

C9_Witness ==
    /\ pc = "done"
    /\ Len(args) >= 3
    /\ NonDecreasing(args)
    /\ args[1] > 0
    /\ args[1] < args[Len(args)]
    /\ ret.dd = R(0)

---------------------------------------------------------------------------
(* Price data.  stock_data is [dates, close]: dates is an ascending list   *)
(* of calendar dates and close[s][k] is the close of symbol s on dates[k], *)
(* 0 when s has no bar (no row) on that date.  A symbol whose fetch failed *)
(* or returned nothing has no bar at all.                                  *)

Symbols == {"A", "B"}
MaxDates == 3
MaxPrice == 2
NoBar == 0

Calendar ==
    << <<2020, 3, 2>>, <<2020, 3, 31>>, <<2020, 4, 1>>,
       <<2020, 12, 31>>, <<2021, 1, 4>>, <<2021, 2, 1>> >>

PriceTables(syms, n) == [syms -> [1..n -> 0..MaxPrice]]

HasBar(stock_data, s, k) ==
    s \in DOMAIN stock_data.close /\ stock_data.close[s][k] # NoBar

\* sorted(set of every Date of every row): the positions of dates on which
\* at least one symbol has a bar, in ascending order.
RECURSIVE UnionFrom(_, _)
UnionFrom(stock_data, k) ==
    IF k > Len(stock_data.dates) THEN <<>>
    ELSE IF \E s \in DOMAIN stock_data.close : HasBar(stock_data, s, k)
         THEN <<k>> \o UnionFrom(stock_data, k + 1)
         ELSE UnionFrom(stock_data, k + 1)

AllDates(stock_data) == UnionFrom(stock_data, 1)

RECURSIVE RSum(_, _)
RSum(f, S) ==
    IF S = {} THEN R(0)
    ELSE LET x == CHOOSE y \in S : TRUE
         IN  RAdd(f[x], RSum(f, S \ {x}))

---------------------------------------------------------------------------
(* FinancialCalculator.calculate_portfolio_values: buy and hold.           *)

\* shares: only the weighted symbols with a bar on the first date of the
\* union get an entry.
InitialSharesByWeight(stock_data, weights, initial_amount, first) ==
    [s \in {t \in DOMAIN weights : HasBar(stock_data, t, first)} |->
        RDiv(RMul(R(initial_amount), weights[s]), R(stock_data.close[s][first]))]

InitialShares(stock_data, weights, initial_amount, first) ==
    [s \in {t \in DOMAIN weights : HasBar(stock_data, t, first)} |->
        RDiv(RMul(R(initial_amount), RDiv(weights[s], R(100))),
             R(stock_data.close[s][first]))]

\* The value of the holdings on date k with the last close of a symbol
\* carried forward to the dates on which it has no bar.
HoldingsValueCarriedForward(stock_data, shares, k) ==
    LET last(s) == CHOOSE j \in 0..k :
                        /\ j > 0 => HasBar(stock_data, s, j)
                        /\ \A i \in (j + 1)..k : ~HasBar(stock_data, s, i)
    IN  RSum([s \in DOMAIN shares |->
                IF last(s) > 0
                THEN RMul(shares[s], R(stock_data.close[s][last(s)]))
                ELSE R(0)],
             DOMAIN shares)

\* The value of the holdings on date k: a held symbol without a bar on k
\* adds nothing.
HoldingsValue(stock_data, shares, k) ==
    RSum([s \in DOMAIN shares |->
            IF HasBar(stock_data, s, k)
            THEN RMul(shares[s], R(stock_data.close[s][k]))
            ELSE R(0)],
         DOMAIN shares)

RECURSIVE PortfolioValuesLoop(_, _, _, _, _, _)
PortfolioValuesLoop(stock_data, shares, initial_amount, dates, j, prev_value) ==
    IF j > Len(dates) THEN <<>>
    ELSE LET portfolio_value == HoldingsValue(stock_data, shares, dates[j])
             daily_return ==
                 IF RLt(R(0), prev_value)
                 THEN RMul(RDiv(RSub(portfolio_value, prev_value), prev_value), R(100))
                 ELSE R(0)
             entry == [date |-> stock_data.dates[dates[j]],
                       value |-> portfolio_value,
                       daily_return |-> daily_return,
                       cumulative_return |->
                           RMul(RDiv(RSub(portfolio_value, R(initial_amount)),
                                     R(initial_amount)), R(100))]
         IN  <<entry>> \o PortfolioValuesLoop(stock_data, shares, initial_amount,
                                              dates, j + 1, portfolio_value)

calculate_portfolio_values(stock_data, weights, initial_amount) ==
    LET dates == AllDates(stock_data)
    IN  IF dates = <<>> THEN <<>>
        ELSE PortfolioValuesLoop(
                stock_data,
                InitialShares(stock_data, weights, initial_amount, dates[1]),
                initial_amount, dates, 1, R(initial_amount))

\* The weights a caller passes: percent per symbol.
WeightChoices ==
    { [A |-> R(60), B |-> R(40)], [A |-> R(50), B |-> R(50)],
      [A |-> R(100)], [A |-> R(70), B |-> R(40)] }

InitialAmounts == {1000, 3000}

InitPortfolio ==
    /\ \E weights \in WeightChoices, n \in 1..MaxDates :
        \E close \in PriceTables(DOMAIN weights, n), initial_amount \in InitialAmounts :
            args = [stock_data |-> [dates |-> SubSeq(Calendar, 1, n), close |-> close],
                    weights |-> weights,
                    initial_amount |-> initial_amount]
    /\ ret = Idle
    /\ pc = "call"
    /\ loc = Idle
    /\ ServicesIdle

CallPortfolioValues ==
    /\ pc = "call"
    /\ ret' = calculate_portfolio_values(args.stock_data, args.weights,
                                         args.initial_amount)
    /\ pc' = "done"
    /\ UNCHANGED <<args, loc, services>>

NextPortfolio == CallPortfolioValues

SpecPortfolio == InitPortfolio /\ [][NextPortfolio]_vars

WeightsSumTo100(weights) == RSum(weights, DOMAIN weights) = R(100)

AllHaveFirstBar(stock_data, weights) ==
    /\ AllDates(stock_data) # <<>>
    /\ \A s \in DOMAIN weights : HasBar(stock_data, s, AllDates(stock_data)[1])

\* What the claim says a date is worth: for each symbol with a bar on the
\* date, the first-date purchase initial_amount * weight / 100 / first close,
\* times the date's close.
ClaimedValue(stock_data, weights, initial_amount, k) ==
    LET first == AllDates(stock_data)[1]
        withBar == {s \in DOMAIN weights : HasBar(stock_data, s, k)}
    IN  RSum([s \in withBar |->
                Norm(initial_amount * weights[s][1] * stock_data.close[s][k],
                     100 * weights[s][2] * stock_data.close[s][first])],
             withBar)

\* C8: with weights summing to 100 and every weighted symbol trading on the
\* first date, the first value is initial_amount and every later value is the
\* sum over the symbols trading that date of their first-date shares times
\* the date's close.
C8_BuyAndHoldValues ==
    (pc = "done" /\ WeightsSumTo100(args.weights)
                 /\ AllHaveFirstBar(args.stock_data, args.weights)) =>
        /\ Len(ret) = Len(AllDates(args.stock_data))
        /\ ret[1].value = R(args.initial_amount)
        /\ \A j \in 2..Len(ret) :
              ret[j].value = ClaimedValue(args.stock_data, args.weights,
                                          args.initial_amount,
                                          AllDates(args.stock_data)[j])

\* Two symbols, three dates, one symbol missing the second date, prices moving.
C8_Witness ==
    /\ pc = "done"
    /\ WeightsSumTo100(args.weights)
    /\ AllHaveFirstBar(args.stock_data, args.weights)
    /\ DOMAIN args.weights = {"A", "B"}
    /\ Len(ret) = 3
    /\ ~HasBar(args.stock_data, "B", 2)
    /\ HasBar(args.stock_data, "B", 3)
    /\ ret[2].value # ret[1].value
    /\ ret[3].value # ret[1].value

---------------------------------------------------------------------------
(* RebalancingService._calculate_periodic_rebalance                        *)

RbMaxDates == 3

Year(date) == date[1]
Month(date) == date[2]
Day(date) == date[3]

\* A mutant of _should_rebalance: the month and the quarter are compared
\* without the year.
should_rebalance_ignoring_year(current_date, last_rebalance_date, frequency) ==
    IF frequency = "yearly"
    THEN Year(current_date) > Year(last_rebalance_date)
    ELSE IF frequency = "quarterly"
    THEN (Month(current_date) - 1) \div 3 > (Month(last_rebalance_date) - 1) \div 3
    ELSE IF frequency = "monthly"
    THEN Month(current_date) > Month(last_rebalance_date)
    ELSE FALSE

should_rebalance(current_date, last_rebalance_date, frequency) ==
    IF frequency = "yearly"
    THEN Year(current_date) > Year(last_rebalance_date)
    ELSE IF frequency = "quarterly"
    THEN LET current_quarter == (Month(current_date) - 1) \div 3
             last_quarter == (Month(last_rebalance_date) - 1) \div 3
         IN  \/ Year(current_date) > Year(last_rebalance_date)
             \/ /\ Year(current_date) = Year(last_rebalance_date)
                /\ current_quarter > last_quarter
    ELSE IF frequency = "monthly"
    THEN \/ Year(current_date) > Year(last_rebalance_date)
         \/ /\ Year(current_date) = Year(last_rebalance_date)
            /\ Month(current_date) > Month(last_rebalance_date)
    ELSE FALSE

\* data.iloc[0]: the first bar of the symbol itself.
FirstBar(stock_data, s) ==
    CHOOSE k \in 1..Len(stock_data.dates) :
        /\ HasBar(stock_data, s, k)
        /\ \A j \in 1..(k - 1) : ~HasBar(stock_data, s, j)

NonEmpty(stock_data) ==
    {s \in DOMAIN stock_data.close :
        \E k \in 1..Len(stock_data.dates) : HasBar(stock_data, s, k)}

initialize_shares(stock_data, weights, initial_amount) ==
    [s \in NonEmpty(stock_data) |->
        RDiv(RDiv(RMul(R(initial_amount), weights[s]), R(100)),
             R(stock_data.close[s][FirstBar(stock_data, s)]))]

\* Only the weighted symbols with a bar on the date get new shares.
rebalance_portfolio(stock_data, weights, total_value, k) ==
    [s \in {t \in DOMAIN weights : HasBar(stock_data, t, k)} |->
        RDiv(RDiv(RMul(total_value, weights[s]), R(100)),
             R(stock_data.close[s][k]))]

\* One pass of the loop over all_dates, on the date at position st.i.
PeriodicStep(a, st) ==
    LET k == st.all_dates[st.i]
        date == a.stock_data.dates[k]
        portfolio_value == HoldingsValue(a.stock_data, st.shares, k)
        rebalance == should_rebalance(date, a.stock_data.dates[st.last_rebalance_date],
                                      a.frequency)
        last == IF rebalance THEN k ELSE st.last_rebalance_date
        daily_return ==
            IF st.portfolio_values # <<>>
               /\ RLt(R(0), st.portfolio_values[Len(st.portfolio_values)].value)
            THEN LET prev_value == st.portfolio_values[Len(st.portfolio_values)].value
                 IN  RDiv(RSub(portfolio_value, prev_value), prev_value)
            ELSE R(0)
    IN  [st EXCEPT
            !.i = st.i + 1,
            !.shares = IF rebalance
                       THEN rebalance_portfolio(a.stock_data, a.weights,
                                                portfolio_value, k)
                       ELSE st.shares,
            !.last_rebalance_date = last,
            !.rebalance_history =
                IF rebalance
                THEN Append(st.rebalance_history,
                            [date |-> date, value_before |-> portfolio_value,
                             action |-> "rebalanced"])
                ELSE st.rebalance_history,
            !.portfolio_values =
                Append(st.portfolio_values,
                       [date |-> date, value |-> portfolio_value,
                        daily_return |-> daily_return,
                        rebalanced |-> (k = last)])]

PeriodicBegin(a) ==
    [i |-> 1,
     all_dates |-> AllDates(a.stock_data),
     shares |-> initialize_shares(a.stock_data, a.weights, a.initial_amount),
     last_rebalance_date |-> AllDates(a.stock_data)[1],
     rebalance_history |-> <<>>,
     portfolio_values |-> <<>>]

\* The bars of one date, per symbol.
RbColumns ==
    { [A |-> 1, B |-> 1], [A |-> 2, B |-> 1], [A |-> 0, B |-> 2],
      [A |-> 0, B |-> 0] }

RECURSIVE AscendingFrom(_, _)
\* The ascending lists of at most n positions of the calendar, each > low.
AscendingFrom(low, n) ==
    IF n = 0 THEN {<<>>}
    ELSE {<<>>} \cup
         UNION { {<<k>> \o rest : rest \in AscendingFrom(k, n - 1)} :
                 k \in (low + 1)..Len(Calendar) }

RbInputs ==
    UNION {
      { [stock_data |->
            [dates |-> [j \in 1..Len(pos) |-> Calendar[pos[j]]],
             close |-> [s \in DOMAIN weights |-> [j \in 1..Len(pos) |-> cols[j][s]]]],
         weights |-> weights,
         initial_amount |-> 1000,
         frequency |-> frequency] :
        cols \in [1..Len(pos) -> RbColumns],
        weights \in {[A |-> R(60), B |-> R(40)]},
        frequency \in {"yearly", "quarterly", "monthly"} } :
      pos \in {q \in AscendingFrom(0, RbMaxDates) : q # <<>>} }

InitRebalance ==
    /\ args \in RbInputs
    /\ ret = Idle
    /\ pc = "call"
    /\ loc = Idle
    /\ ServicesIdle

\* Lines 108-128: no bar at all returns the empty list, else the loop starts.
RbBegin ==
    /\ pc = "call"
    /\ IF AllDates(args.stock_data) = <<>>
       THEN /\ pc' = "done"
            /\ ret' = <<>>
            /\ loc' = loc
       ELSE /\ pc' = "loop"
            /\ loc' = PeriodicBegin(args)
            /\ ret' = ret
    /\ UNCHANGED <<args, services>>

RbStep ==
    /\ pc = "loop"
    /\ loc.i <= Len(loc.all_dates)
    /\ loc' = PeriodicStep(args, loc)
    /\ UNCHANGED <<args, ret, pc, services>>

RbReturn ==
    /\ pc = "loop"
    /\ loc.i > Len(loc.all_dates)
    /\ ret' = loc.portfolio_values
    /\ pc' = "done"
    /\ UNCHANGED <<args, loc, services>>

NextRebalance == RbBegin \/ RbStep \/ RbReturn

SpecRebalance == InitRebalance /\ [][NextRebalance]_vars

\* The calendar period of a date, as one number.
PeriodOf(date, frequency) ==
    IF frequency = "yearly" THEN Year(date)
    ELSE IF frequency = "quarterly" THEN 4 * Year(date) + (Month(date) - 1) \div 3
    ELSE 12 * Year(date) + (Month(date) - 1)

RebalanceDates == {loc.rebalance_history[j].date : j \in 1..Len(loc.rebalance_history)}

\* On the date being processed a rebalance is executed iff the date's period
\* is strictly later than the period of the previous rebalance date.
C1_StepRule ==
    (pc = "loop" /\ loc.i <= Len(loc.all_dates)) =>
        LET date == args.stock_data.dates[loc.all_dates[loc.i]]
            last == args.stock_data.dates[loc.last_rebalance_date]
            later == PeriodOf(date, args.frequency) > PeriodOf(last, args.frequency)
        IN  /\ later =>
                /\ Len(loc'.rebalance_history) = Len(loc.rebalance_history) + 1
                /\ loc'.rebalance_history[Len(loc'.rebalance_history)].date = date
                /\ loc'.last_rebalance_date = loc.all_dates[loc.i]
            /\ ~later =>
                /\ loc'.rebalance_history = loc.rebalance_history
                /\ loc'.last_rebalance_date = loc.last_rebalance_date

\* Among the dates processed so far, the rebalance dates are exactly the first
\* trading dates of the periods later than the first date's period; each is
\* recorded once.
C1_OncePerPeriod ==
    pc = "loop" =>
        LET date(j) == args.stock_data.dates[loc.all_dates[j]]
            per(j) == PeriodOf(date(j), args.frequency)
        IN  /\ \A j \in 1..(loc.i - 1) :
                  (date(j) \in RebalanceDates) <=>
                      /\ per(j) > per(1)
                      /\ \A h \in 1..(j - 1) : per(h) < per(j)
            /\ Cardinality(RebalanceDates) = Len(loc.rebalance_history)

\* C1: a periodic rebalance executes on a date iff the date's calendar period
\* is strictly later than that of the previous rebalance date, hence exactly
\* once per later period with a trading date, on its first trading date.
C1_RebalanceOncePerPeriod == []C1_OncePerPeriod /\ [][C1_StepRule]_vars

\* Three dates processed: the second in the first date's period (no
\* rebalance), the third in a later year but an earlier month (rebalance).
C1_Witness ==
    /\ pc = "loop"
    /\ loc.i = 4
    /\ args.frequency = "monthly"
    /\ Len(loc.rebalance_history) = 1
    /\ LET d1 == args.stock_data.dates[loc.all_dates[1]]
           d2 == args.stock_data.dates[loc.all_dates[2]]
           d3 == args.stock_data.dates[loc.all_dates[3]]
       IN  /\ Month(d1) = Month(d2) /\ Year(d1) = Year(d2)
           /\ Year(d3) > Year(d1) /\ Month(d3) < Month(d1)
           /\ loc.rebalance_history[1].date = d3

---------------------------------------------------------------------------
(* Calendar arithmetic (pandas Timestamp / DateOffset).                    *)

BaseYear == 2019

IsLeap(y) == (y % 4 = 0 /\ y % 100 # 0) \/ y % 400 = 0

DaysInMonth(y, m) ==
    IF m = 2 THEN (IF IsLeap(y) THEN 29 ELSE 28)
    ELSE IF m \in {4, 6, 9, 11} THEN 30 ELSE 31

RECURSIVE DaysBeforeMonth(_, _)
DaysBeforeMonth(y, m) ==
    IF m = 1 THEN 0 ELSE DaysBeforeMonth(y, m - 1) + DaysInMonth(y, m - 1)

RECURSIVE DaysBeforeYear(_)
DaysBeforeYear(y) ==
    IF y <= BaseYear THEN 0
    ELSE DaysBeforeYear(y - 1) + (IF IsLeap(y - 1) THEN 366 ELSE 365)

\* The number of the day, counted from 1 January of BaseYear.
DayNumber(date) ==
    DaysBeforeYear(Year(date)) + DaysBeforeMonth(Year(date), Month(date)) + Day(date)

DateLe(a, b) == DayNumber(a) <= DayNumber(b)
DateLt(a, b) == DayNumber(a) < DayNumber(b)

---------------------------------------------------------------------------
(* DCAService._detect_condition_triggers                                   *)

TrigMaxDates == 4

TrigCalendar ==
    << <<2024, 1, 1>>, <<2024, 1, 2>>, <<2024, 1, 5>>, <<2024, 1, 9>>,
       <<2024, 1, 12>>, <<2024, 1, 19>> >>

\* The bars of one date: A alone at 10, 9 or 8, or A at 10 with B at 2.
TrigColumns ==
    { [A |-> 10, B |-> 0], [A |-> 9, B |-> 0], [A |-> 8, B |-> 0],
      [A |-> 10, B |-> 2] }

\* _calculate_portfolio_prices: per date of the union, the plain average of
\* the closes of the symbols with a bar.
calculate_portfolio_prices(stock_data) ==
    LET dates == AllDates(stock_data)
    IN  [j \in 1..Len(dates) |->
            LET withBar == {s \in DOMAIN stock_data.close :
                                HasBar(stock_data, s, dates[j])}
            IN  [date |-> stock_data.dates[dates[j]],
                 price |-> RDiv(RSum([s \in withBar |->
                                        R(stock_data.close[s][dates[j]])], withBar),
                                R(Cardinality(withBar)))]]

check_cooldown(current_date, last_trigger_date, cooldown_days) ==
    DayNumber(current_date) - DayNumber(last_trigger_date) >= cooldown_days

RMax(a, b) == IF RLt(a, b) THEN b ELSE a

RECURSIVE MaxPriceFrom(_, _, _)
MaxPriceFrom(prices, i, current_idx) ==
    IF i > current_idx THEN R(0)
    ELSE RMax(prices[i].price, MaxPriceFrom(prices, i + 1, current_idx))

\* Positions are 1-based here: position i is index i - 1 of the program.
get_max_price(prices, current_idx, lookback_days) ==
    LET start_idx == IF current_idx - lookback_days > 1
                     THEN current_idx - lookback_days ELSE 1
    IN  MaxPriceFrom(prices, start_idx, current_idx)

\* One condition on one date: the triggers list with the trigger it may add.
\* The field cond (the position of the condition in the list) is not in the
\* program's trigger; it records which condition emitted it.
EvalCondition(triggers, prices, i, conditions, c) ==
    LET condition == conditions[c]
        date == prices[i].date
        current_price == prices[i].price
        prev_price == prices[i - 1].price
        free(cooldown) ==
            \/ triggers = <<>>
            \/ check_cooldown(date, triggers[Len(triggers)].date, cooldown)
    IN  IF condition.type = "price_drop"
        THEN LET drop_pct == RMul(RDiv(RSub(prev_price, current_price), prev_price),
                                  R(100))
                 threshold == condition.config.drop_percentage
             IN  IF RLe(R(threshold), drop_pct) /\ free(condition.config.cooldown_days)
                 THEN Append(triggers,
                             [date |-> date, type |-> "price_drop",
                              trigger_value |-> drop_pct, threshold |-> threshold,
                              amount |-> condition.config.amount, cond |-> c])
                 ELSE triggers
        ELSE IF condition.type = "drawdown"
        THEN LET max_price == get_max_price(prices, i, condition.config.lookback_days)
                 drawdown == RMul(RDiv(RSub(max_price, current_price), max_price),
                                  R(100))
                 threshold == condition.config.drawdown_threshold
             IN  IF RLe(R(threshold), drawdown) /\ free(7)
                 THEN Append(triggers,
                             [date |-> date, type |-> "drawdown",
                              trigger_value |-> drawdown, threshold |-> threshold,
                              amount |-> condition.config.amount, cond |-> c])
                 ELSE triggers
        ELSE triggers

RECURSIVE TriggerLoop(_, _, _, _, _)
\* for i in range(1, len(portfolio_prices)): for condition in conditions
TriggerLoop(triggers, prices, i, conditions, c) ==
    IF i > Len(prices) THEN triggers
    ELSE IF c > Len(conditions) THEN TriggerLoop(triggers, prices, i + 1, conditions, 1)
    ELSE TriggerLoop(EvalCondition(triggers, prices, i, conditions, c),
                     prices, i, conditions, c + 1)

detect_condition_triggers(stock_data, conditions) ==
    TriggerLoop(<<>>, calculate_portfolio_prices(stock_data), 2, conditions, 1)

PriceDrop(pct, amount, cooldown) ==
    [type |-> "price_drop",
     config |-> [drop_percentage |-> pct, amount |-> amount, cooldown_days |-> cooldown]]

Drawdown(pct, amount, cooldown, lookback) ==
    [type |-> "drawdown",
     config |-> [drawdown_threshold |-> pct, amount |-> amount,
                 cooldown_days |-> cooldown, lookback_days |-> lookback]]

ConditionLists ==
    { <<PriceDrop(10, 2000, 7)>>,
      <<Drawdown(10, 1000, 10, 252)>>,
      <<PriceDrop(10, 2000, 7), Drawdown(20, 1000, 3, 1)>>,
      <<PriceDrop(10, 500, 0), PriceDrop(5, 2000, 7)>> }

InitTriggers ==
    /\ \E n \in 1..TrigMaxDates, conditions \in ConditionLists :
        \E cols \in [1..n -> TrigColumns] :
            args = [stock_data |->
                        [dates |-> SubSeq(TrigCalendar, 1, n),
                         close |-> [s \in Symbols |-> [j \in 1..n |-> cols[j][s]]]],
                    conditions |-> conditions]
    /\ ret = Idle
    /\ pc = "call"
    /\ loc = Idle
    /\ ServicesIdle

CallDetectTriggers ==
    /\ pc = "call"
    /\ ret' = detect_condition_triggers(args.stock_data, args.conditions)
    /\ pc' = "done"
    /\ UNCHANGED <<args, loc, services>>

NextTriggers == CallDetectTriggers

SpecTriggers == InitTriggers /\ [][NextTriggers]_vars

DaysApart(t1, t2) == Abs(DayNumber(t2.date) - DayNumber(t1.date))

\* C2: any two triggers emitted for one condition, of either type, are at
\* least that condition's configured cooldown_days calendar days apart.
C2_CooldownRespected ==
    pc = "done" =>
        \A i, j \in 1..Len(ret) :
            (i < j /\ ret[i].cond = ret[j].cond) =>
                DaysApart(ret[i], ret[j]) >=
                    args.conditions[ret[i].cond].config.cooldown_days

---------------------------------------------------------------------------
(* DCAService._generate_investment_dates                                   *)

Min(a, b) == IF a < b THEN a ELSE b

NextDay(date) ==
    IF Day(date) < DaysInMonth(Year(date), Month(date))
    THEN <<Year(date), Month(date), Day(date) + 1>>
    ELSE IF Month(date) < 12 THEN <<Year(date), Month(date) + 1, 1>>
    ELSE <<Year(date) + 1, 1, 1>>

RECURSIVE AddDays(_, _)
\* current + pd.DateOffset(days=n)
AddDays(date, n) == IF n = 0 THEN date ELSE AddDays(NextDay(date), n - 1)

\* current + pd.DateOffset(months=1): the next month, the day kept unless the
\* month is shorter.
AddMonth(date) ==
    LET y == IF Month(date) = 12 THEN Year(date) + 1 ELSE Year(date)
        m == IF Month(date) = 12 THEN 1 ELSE Month(date) + 1
    IN  <<y, m, Min(Day(date), DaysInMonth(y, m))>>

\* Timestamp.weekday(): Monday is 0.  1 January 2019 was a Tuesday.
Weekday(date) == DayNumber(date) % 7

RECURSIVE MonthlyDates(_, _, _, _)
MonthlyDates(current, start_date, end, day_of_month) ==
    IF ~DateLe(current, end) THEN <<>>
    ELSE LET investment_date ==
                 <<Year(current), Month(current),
                   Min(day_of_month, DaysInMonth(Year(current), Month(current)))>>
             rest == MonthlyDates(AddMonth(current), start_date, end, day_of_month)
         IN  IF DateLe(start_date, investment_date) /\ DateLe(investment_date, end)
             THEN <<investment_date>> \o rest
             ELSE rest

RECURSIVE EveryDays(_, _, _)
\* weekly and biweekly: every step days from start_date on.
EveryDays(current, end, step) ==
    IF ~DateLe(current, end) THEN <<>>
    ELSE <<current>> \o EveryDays(AddDays(current, step), end, step)

RECURSIVE WeekdayDates(_, _)
WeekdayDates(current, end) ==
    IF ~DateLe(current, end) THEN <<>>
    ELSE (IF Weekday(current) < 5 THEN <<current>> ELSE <<>>)
         \o WeekdayDates(NextDay(current), end)

generate_investment_dates(start_date, end_date, frequency, config) ==
    IF frequency = "monthly"
    THEN MonthlyDates(start_date, start_date, end_date, config.day_of_month)
    ELSE IF frequency = "weekly" THEN EveryDays(start_date, end_date, 7)
    ELSE IF frequency = "biweekly" THEN EveryDays(start_date, end_date, 14)
    ELSE IF frequency = "daily" THEN WeekdayDates(start_date, end_date)
    ELSE <<>>

StartDates ==
    { <<2019, 12, 15>>, <<2020, 1, 1>>, <<2020, 1, 20>>, <<2020, 1, 31>>,
      <<2020, 2, 29>>, <<2021, 1, 31>> }

EndDates ==
    { <<2020, 1, 10>>, <<2020, 2, 10>>, <<2020, 2, 29>>, <<2020, 3, 15>>,
      <<2020, 3, 31>>, <<2020, 4, 30>>, <<2021, 3, 1>> }

DaysOfMonth == {1, 10, 15, 28, 29, 30, 31}

InitSchedule ==
    /\ \E start_date \in StartDates, end_date \in EndDates,
          frequency \in {"monthly", "weekly", "biweekly", "daily"},
          day_of_month \in DaysOfMonth :
            /\ frequency # "monthly" =>
                    day_of_month = 1 /\ Year(end_date) = 2020
            /\ frequency = "daily" =>
                    Year(start_date) = 2020 /\ Month(end_date) <= 2
            /\ args = [start_date |-> start_date, end_date |-> end_date,
                       frequency |-> frequency,
                       config |-> [day_of_month |-> day_of_month]]
    /\ ret = Idle
    /\ pc = "call"
    /\ loc = Idle
    /\ ServicesIdle

CallGenerateDates ==
    /\ pc = "call"
    /\ ret' = generate_investment_dates(args.start_date, args.end_date,
                                        args.frequency, args.config)
    /\ pc' = "done"
    /\ UNCHANGED <<args, loc, services>>

NextSchedule == CallGenerateDates

SpecSchedule == InitSchedule /\ [][NextSchedule]_vars

\* The dates the claim names: in every month, the day day_of_month clamped to
\* the month's length, when it lies in [start, end].
ClampedTargets(start_date, end_date, day_of_month) ==
    {d \in {<<y, m, Min(day_of_month, DaysInMonth(y, m))>> :
                y \in Year(start_date)..Year(end_date), m \in 1..12} :
        DateLe(start_date, d) /\ DateLe(d, end_date)}

\* C4: for monthly and start <= end the schedule is exactly the clamped
\* target days within the range, one per month, ascending, none skipped.
C4_MonthlySchedule ==
    (pc = "done" /\ args.frequency = "monthly"
                 /\ DateLe(args.start_date, args.end_date)) =>
        /\ {ret[i] : i \in 1..Len(ret)} =
               ClampedTargets(args.start_date, args.end_date, args.config.day_of_month)
        /\ \A i \in 1..(Len(ret) - 1) : DateLt(ret[i], ret[i + 1])

---------------------------------------------------------------------------
(* DCAService._calculate_dca_returns, on the schedule that                 *)
(* run_periodic_dca generates for the configuration.                       *)

DcaMaxDates == 3

\* Trading days of early 2020.
DcaCalendar ==
    << <<2020, 1, 2>>, <<2020, 1, 15>>, <<2020, 2, 3>>, <<2020, 3, 2>>,
       <<2020, 3, 16>> >>

DcaColumns == { [A |-> 1, B |-> 1], [A |-> 2, B |-> 1], [A |-> 0, B |-> 2] }

InSeq(x, seq) == \E i \in 1..Len(seq) : seq[i] = x

\* The shares a contribution of amount buys on date k: each weighted symbol
\* with a bar gets amount * weight / close more; the others are skipped.
BuyByWeight(stock_data, weights, shares, amount, k) ==
    [s \in DOMAIN shares |->
        IF s \in DOMAIN weights /\ HasBar(stock_data, s, k)
        THEN RAdd(shares[s],
                  RDiv(RMul(R(amount), RDiv(weights[s], R(100))),
                       R(stock_data.close[s][k])))
        ELSE shares[s]]

\* Lines 228-257: the locals before the loop, the initial purchase made.
DcaBeginLocals(stock_data, weights, initial_amount) ==
    LET all_dates == AllDates(stock_data)
        zero == [s \in DOMAIN weights |-> R(0)]
    IN  [i |-> 1,
         all_dates |-> all_dates,
         shares |-> IF initial_amount > 0 /\ all_dates # <<>>
                    THEN [s \in DOMAIN zero |->
                            IF HasBar(stock_data, s, all_dates[1])
                            THEN RDiv(RMul(R(initial_amount), RDiv(weights[s], R(100))),
                                      R(stock_data.close[s][all_dates[1]]))
                            ELSE zero[s]]
                    ELSE zero,
         total_invested |-> R(initial_amount),
         results |-> <<>>]

\* One pass of the loop of _calculate_dca_returns.
DcaStepLocals(stock_data, weights, investment_amount, investment_dates, st) ==
    LET k == st.all_dates[st.i]
        date == stock_data.dates[k]
        invest == InSeq(date, investment_dates)
        shares == IF invest
                  THEN BuyByWeight(stock_data, weights, st.shares, investment_amount, k)
                  ELSE st.shares
        total_invested == IF invest
                          THEN RAdd(st.total_invested, R(investment_amount))
                          ELSE st.total_invested
        portfolio_value == HoldingsValue(stock_data, shares, k)
    IN  [st EXCEPT
            !.i = st.i + 1,
            !.shares = shares,
            !.total_invested = total_invested,
            !.results = Append(st.results,
                [date |-> date, invested |-> total_invested, value |-> portfolio_value,
                 return_pct |->
                    IF RLt(R(0), total_invested)
                    THEN RMul(RDiv(RSub(portfolio_value, total_invested),
                                   total_invested), R(100))
                    ELSE R(0)])]

DcaResult(st) ==
    [time_series |-> st.results, final_shares |-> st.shares,
     total_invested |-> st.total_invested]

RECURSIVE DcaLoop(_, _, _, _, _)
DcaLoop(stock_data, weights, investment_amount, investment_dates, st) ==
    IF st.i > Len(st.all_dates) THEN st
    ELSE DcaLoop(stock_data, weights, investment_amount, investment_dates,
                 DcaStepLocals(stock_data, weights, investment_amount,
                               investment_dates, st))

calculate_dca_returns(stock_data, weights, initial_amount, amount, dates) ==
    DcaResult(DcaLoop(stock_data, weights, amount, dates,
                      DcaBeginLocals(stock_data, weights, initial_amount)))

DcaSchedules ==
    { [frequency |-> "monthly", frequency_config |-> [day_of_month |-> 1]],
      [frequency |-> "monthly", frequency_config |-> [day_of_month |-> 2]],
      [frequency |-> "monthly", frequency_config |-> [day_of_month |-> 15]],
      [frequency |-> "weekly", frequency_config |-> [day_of_month |-> 1]],
      [frequency |-> "biweekly", frequency_config |-> [day_of_month |-> 1]],
      [frequency |-> "daily", frequency_config |-> [day_of_month |-> 1]] }

DcaDateLists ==
    {[j \in 1..Len(pos) |-> pos[j]] :
        pos \in {q \in AscendingFrom(0, DcaMaxDates) :
                    q # <<>> /\ \A j \in 1..Len(q) : q[j] <= Len(DcaCalendar)}}

InitPeriodicDCA ==
    /\ \E pos \in DcaDateLists, sched \in DcaSchedules :
        \E cols \in [1..Len(pos) -> DcaColumns] :
            args = [stock_data |->
                        [dates |-> [j \in 1..Len(pos) |-> DcaCalendar[pos[j]]],
                         close |-> [s \in Symbols |->
                                        [j \in 1..Len(pos) |-> cols[j][s]]]],
                    weights |-> [A |-> R(60), B |-> R(40)],
                    start_date |-> <<2020, 1, 1>>,
                    end_date |-> <<2020, 3, 31>>,
                    initial_amount |-> 1000,
                    investment_amount |-> 100,
                    frequency |-> sched.frequency,
                    frequency_config |-> sched.frequency_config]
    /\ ret = Idle
    /\ pc = "call"
    /\ loc = Idle
    /\ ServicesIdle

\* run_periodic_dca, step 2 and the start of step 3: the schedule is
\* generated and the initial purchase made.
DcaBegin ==
    /\ pc = "call"
    /\ loc' = [DcaBeginLocals(args.stock_data, args.weights, args.initial_amount)
                EXCEPT !.results = <<>>] @@
              [investment_dates |->
                  generate_investment_dates(args.start_date, args.end_date,
                                            args.frequency, args.frequency_config)]
    /\ pc' = "loop"
    /\ UNCHANGED <<args, ret, services>>

DcaStep ==
    /\ pc = "loop"
    /\ loc.i <= Len(loc.all_dates)
    /\ loc' = DcaStepLocals(args.stock_data, args.weights, args.investment_amount,
                            loc.investment_dates, loc)
    /\ UNCHANGED <<args, ret, pc, services>>

DcaReturn ==
    /\ pc = "loop"
    /\ loc.i > Len(loc.all_dates)
    /\ ret' = DcaResult(loc)
    /\ pc' = "done"
    /\ UNCHANGED <<args, loc, services>>

NextPeriodicDCA == DcaBegin \/ DcaStep \/ DcaReturn

SpecPeriodicDCA == InitPeriodicDCA /\ [][NextPeriodicDCA]_vars

\* C3: the final total_invested of a periodic DCA run is initial_amount plus
\* investment_amount for every date of the generated schedule.
C3_TotalInvestedCountsSchedule ==
    pc = "done" =>
        ret.total_invested =
            R(args.initial_amount
              + args.investment_amount
                * Len(generate_investment_dates(args.start_date, args.end_date,
                                                args.frequency, args.frequency_config)))

---------------------------------------------------------------------------
(* FinancialCalculator.calculate_risk_metrics and calculate_annual_returns.*)
(* The volatility, the Sharpe and Sortino ratios and the annualized return *)
(* are square roots and fractional powers of the same values and returns;  *)
(* the model keeps the metrics that are rational.                          *)

\* {} and dict.get(key, default)
EmptyDict == [key \in {} |-> 0]
Get(dict, key, default) == IF key \in DOMAIN dict THEN dict[key] ELSE default

\* str(e) of the exception a call ended with; <<>> when it returned.
NoError == <<>>
KeyError(key) == <<"KeyError", key>>

calculate_total_return(start_value, end_value) ==
    IF RLe(start_value, R(0)) THEN R(0)
    ELSE RMul(RDiv(RSub(end_value, start_value), start_value), R(100))

\* pv['daily_return'] for pv in portfolio_values[1:] raises KeyError when an
\* entry has no such key.
RiskMetricsRaises(portfolio_values) ==
    \E i \in 2..Len(portfolio_values) :
        "daily_return" \notin DOMAIN portfolio_values[i]

calculate_risk_metrics(portfolio_values) ==
    IF portfolio_values = <<>> THEN EmptyDict
    ELSE LET n == Len(portfolio_values)
             values == [i \in 1..n |-> portfolio_values[i].value]
             returns == [i \in 1..(n - 1) |-> portfolio_values[i + 1].daily_return]
             max_drawdown == calculate_max_drawdown(values)
             positive_days == Cardinality({i \in 1..(n - 1) : RLt(R(0), returns[i])})
         IN  [total_return |-> calculate_total_return(values[1], values[n]),
              max_drawdown |-> max_drawdown.dd,
              positive_days |-> positive_days,
              total_days |-> n - 1,
              positive_rate |->
                  IF n > 1 THEN RMul(RDiv(R(positive_days), R(n - 1)), R(100))
                  ELSE R(0),
              max_drawdown_peak_date |-> portfolio_values[max_drawdown.peak_idx + 1].date,
              max_drawdown_trough_date |->
                  portfolio_values[max_drawdown.trough_idx + 1].date]

\* year_data['daily_return'] raises KeyError when the frame built from the
\* entries has no such column, that is when no entry has the key.
AnnualReturnsRaises(portfolio_values) ==
    /\ portfolio_values # <<>>
    /\ \A i \in 1..Len(portfolio_values) :
            "daily_return" \notin DOMAIN portfolio_values[i]

RECURSIVE AnnualFrom(_, _)
\* The years in the order of their first entry, from entry i on.
AnnualFrom(portfolio_values, i) ==
    IF i > Len(portfolio_values) THEN <<>>
    ELSE LET year == Year(portfolio_values[i].date)
             rows == {j \in 1..Len(portfolio_values) :
                        Year(portfolio_values[j].date) = year}
             first == CHOOSE j \in rows : \A k \in rows : j <= k
             last == CHOOSE j \in rows : \A k \in rows : k <= j
             start_value == portfolio_values[first].value
             end_value == portfolio_values[last].value
         IN  <<[year |-> year, start_value |-> start_value, end_value |-> end_value,
                annual_return |-> calculate_total_return(start_value, end_value)]>>
             \o AnnualFrom(portfolio_values, last + 1)

calculate_annual_returns(portfolio_values) == AnnualFrom(portfolio_values, 1)

---------------------------------------------------------------------------
(* RebalancingService.apply_rebalancing                                    *)

RECURSIVE NoRebalanceLoop(_, _, _, _, _)
NoRebalanceLoop(stock_data, shares, all_dates, j, portfolio_values) ==
    IF j > Len(all_dates) THEN portfolio_values
    ELSE LET portfolio_value == HoldingsValue(stock_data, shares, all_dates[j])
             daily_return ==
                 IF portfolio_values # <<>>
                    /\ RLt(R(0), portfolio_values[Len(portfolio_values)].value)
                 THEN LET prev_value == portfolio_values[Len(portfolio_values)].value
                      IN  RDiv(RSub(portfolio_value, prev_value), prev_value)
                 ELSE R(0)
         IN  NoRebalanceLoop(stock_data, shares, all_dates, j + 1,
                Append(portfolio_values,
                       [date |-> stock_data.dates[all_dates[j]],
                        value |-> portfolio_value,
                        daily_return |-> daily_return]))

\* Each symbol with data is bought at its own first close and held.
calculate_no_rebalance(stock_data, weights, initial_amount) ==
    NoRebalanceLoop(stock_data,
                    initialize_shares(stock_data, weights, initial_amount),
                    AllDates(stock_data), 1, <<>>)

RECURSIVE PeriodicLoop(_, _)
PeriodicLoop(a, st) ==
    IF st.i > Len(st.all_dates) THEN st ELSE PeriodicLoop(a, PeriodicStep(a, st))

calculate_periodic_rebalance(stock_data, weights, initial_amount, frequency) ==
    LET a == [stock_data |-> stock_data, weights |-> weights,
              initial_amount |-> initial_amount, frequency |-> frequency]
    IN  IF AllDates(stock_data) = <<>> THEN <<>>
        ELSE PeriodicLoop(a, PeriodicBegin(a)).portfolio_values

apply_rebalancing(stock_data, weights, initial_amount, frequency) ==
    IF frequency \in {"yearly", "quarterly", "monthly"}
    THEN calculate_periodic_rebalance(stock_data, weights, initial_amount, frequency)
    ELSE calculate_no_rebalance(stock_data, weights, initial_amount)

---------------------------------------------------------------------------
(* BacktestService.run_backtest.  A portfolio_config is modelled with the  *)
(* set of the keys it has (present); the value of an absent key is a       *)
(* placeholder that nothing reads.  The weights of the model lie away from *)
(* the two sums at distance exactly 0.01 from 100, where the float         *)
(* comparison depends on rounding.                                         *)

max_assets_count == 5
min_initial_amount == 1000
max_initial_amount == 1000000

RequiredFields == <<"assets", "start_date", "end_date", "initial_amount">>

MissingField(field) == <<"Missing required field", field>>
NoAsset == <<"At least one asset is required">>
TooManyAssets == <<"Maximum assets allowed", max_assets_count>>
BadWeightSum == <<"Weights must sum to 100%">>
AmountTooSmall == <<"Minimum initial amount", min_initial_amount>>
AmountTooLarge == <<"Maximum initial amount", max_initial_amount>>

RECURSIVE SumWeights(_, _)
\* sum(asset['weight'] for asset in assets)
SumWeights(assets, i) ==
    IF i > Len(assets) THEN R(0)
    ELSE RAdd(assets[i].weight, SumWeights(assets, i + 1))

WeightSumOff(assets) ==
    RLt(<<1, 100>>, RAbs(RSub(SumWeights(assets, 1), R(100))))

\* A mutant of _validate_config: the number of assets is not checked.
validate_config_without_count(config) ==
    LET missing == {i \in 1..Len(RequiredFields) : RequiredFields[i] \notin config.present}
    IN  IF missing # {}
        THEN MissingField(RequiredFields[CHOOSE i \in missing : \A j \in missing : i <= j])
        ELSE IF config.assets = <<>> THEN NoAsset
        ELSE IF WeightSumOff(config.assets) THEN BadWeightSum
        ELSE IF config.initial_amount < min_initial_amount THEN AmountTooSmall
        ELSE IF config.initial_amount > max_initial_amount THEN AmountTooLarge
        ELSE NoError

\* The exception _validate_config raises, NoError when it returns.
validate_config(config) ==
    LET missing == {i \in 1..Len(RequiredFields) : RequiredFields[i] \notin config.present}
    IN  IF missing # {}
        THEN MissingField(RequiredFields[CHOOSE i \in missing : \A j \in missing : i <= j])
        ELSE IF config.assets = <<>> THEN NoAsset
        ELSE IF Len(config.assets) > max_assets_count THEN TooManyAssets
        ELSE IF WeightSumOff(config.assets) THEN BadWeightSum
        ELSE IF config.initial_amount < min_initial_amount THEN AmountTooSmall
        ELSE IF config.initial_amount > max_initial_amount THEN AmountTooLarge
        ELSE NoError

SymbolsOf(assets) == {assets[i].symbol : i \in 1..Len(assets)}

\* {asset['symbol']: asset['weight'] for asset in assets}
WeightsOf(assets) ==
    [s \in SymbolsOf(assets) |->
        assets[CHOOSE i \in 1..Len(assets) :
                  /\ assets[i].symbol = s
                  /\ \A j \in (i + 1)..Len(assets) : assets[j].symbol # s].weight]

\* StockDataDAO.get_multiple_stocks_data / get_multiple_stocks_dataframes:
\* the bars the market has for the symbols asked; a symbol the market does
\* not know comes back without any bar.
get_multiple_stocks_data(symbols, market) ==
    [dates |-> market.dates,
     close |-> [s \in symbols |->
                  IF s \in DOMAIN market.close THEN market.close[s]
                  ELSE [k \in 1..Len(market.dates) |-> NoBar]]]

\* What a run returns.  fetched (the number of calls of the data access
\* object) and simulated are not part of the dict: they record what the run
\* did before it returned.
RunFailed(error, fetched, simulated) ==
    [status |-> "failed", error |-> error, fetched |-> fetched,
     simulated |-> simulated, time_series |-> <<>>, risk_metrics |-> EmptyDict,
     annual_returns |-> <<>>, end_value |-> R(0)]

RunCompleted(portfolio_values, risk_metrics, annual_returns, fetched) ==
    [status |-> "completed", error |-> NoError, fetched |-> fetched,
     simulated |-> TRUE, time_series |-> portfolio_values,
     risk_metrics |->
        [total_return_pct |-> Get(risk_metrics, "total_return", R(0)),
         max_drawdown_pct |-> Get(risk_metrics, "max_drawdown", R(0)),
         positive_rate_pct |-> Get(risk_metrics, "positive_rate", R(0))],
     annual_returns |-> annual_returns,
     end_value |-> IF portfolio_values # <<>>
                   THEN portfolio_values[Len(portfolio_values)].value
                   ELSE R(0)]

run_backtest(config, market) ==
    LET error == validate_config(config)
    IN  IF error # NoError THEN RunFailed(error, 0, FALSE)
        ELSE
        LET stock_data == get_multiple_stocks_data(SymbolsOf(config.assets), market)
            weights == WeightsOf(config.assets)
            rebalancing == config.rebalance_frequency # "none"
            portfolio_values ==
                IF rebalancing
                THEN apply_rebalancing(stock_data, weights, config.initial_amount,
                                       config.rebalance_frequency)
                ELSE calculate_portfolio_values(stock_data, weights,
                                                config.initial_amount)
        IN  RunCompleted(portfolio_values,
                         calculate_risk_metrics(portfolio_values),
                         calculate_annual_returns(portfolio_values),
                         IF rebalancing THEN 2 ELSE 1)

Asset(symbol, weight) == [symbol |-> symbol, weight |-> weight]

SymbolNames == <<"A", "B", "C", "D", "E", "F">>

\* Lists of assets: empty, sums of 100, 120, 100.005 and 100.02, five and six
\* assets.
BtAssetLists ==
    { <<>>,
      <<Asset("A", R(100))>>,
      <<Asset("A", R(60)), Asset("B", R(40))>>,
      <<Asset("A", R(60)), Asset("B", R(60))>>,
      <<Asset("A", R(50)), Asset("B", <<10001, 200>>)>>,
      <<Asset("A", R(50)), Asset("B", <<2501, 50>>)>>,
      [i \in 1..5 |-> Asset(SymbolNames[i], R(20))],
      [i \in 1..6 |-> Asset(SymbolNames[i], IF i <= 4 THEN R(20) ELSE R(10))],
      [i \in 1..6 |-> Asset(SymbolNames[i], R(20))] }

BtAmounts == {999, 1000, 5000, 1000000, 1000001}

BtConfigs ==
    { [present |-> present,
       assets |-> assets,
       start_date |-> <<2020, 1, 1>>,
       end_date |-> <<2020, 3, 31>>,
       initial_amount |-> initial_amount,
       rebalance_frequency |-> frequency] :
        present \in SUBSET {RequiredFields[i] : i \in 1..Len(RequiredFields)},
        assets \in BtAssetLists, initial_amount \in BtAmounts \cup {0},
        frequency \in {"none", "monthly", "weekly"} }

\* What the market has between start_date and end_date.
Market(dates, a, b) == [dates |-> dates, close |-> [A |-> a, B |-> b]]

Markets ==
    { Market(<< <<2020, 1, 2>>, <<2020, 1, 15>>, <<2020, 2, 3>> >>, <<1, 2, 1>>, <<1, 1, 2>>),
      Market(<< <<2020, 1, 2>>, <<2020, 1, 15>>, <<2020, 2, 3>> >>, <<0, 2, 1>>, <<2, 2, 2>>),
      Market(<< <<2020, 1, 2>>, <<2020, 1, 15>>, <<2020, 2, 3>> >>, <<0, 1, 2>>, <<2, 2, 1>>),
      Market(<<>>, <<>>, <<>>) }

InitBacktest ==
    /\ \E config \in BtConfigs, market \in Markets :
        /\ "assets" \notin config.present => config.assets = <<>>
        /\ (config.initial_amount = 0) = ("initial_amount" \notin config.present)
        /\ args = [config |-> config, market |-> market]
    /\ ret = Idle
    /\ pc = "call"
    /\ loc = Idle
    /\ ServicesIdle

CallRunBacktest ==
    /\ pc = "call"
    /\ ret' = run_backtest(args.config, args.market)
    /\ pc' = "done"
    /\ UNCHANGED <<args, loc, services>>

NextBacktest == CallRunBacktest

SpecBacktest == InitBacktest /\ [][NextBacktest]_vars

\* The checks the claim lists, in its order: TRUE where the config fails.
ClaimedChecks(config) ==
    << "assets" \notin config.present,
       "start_date" \notin config.present,
       "end_date" \notin config.present,
       "initial_amount" \notin config.present,
       config.assets = <<>>,
       Len(config.assets) > max_assets_count,
       LET total == SumWeights(config.assets, 1)
       IN  RLt(RAdd(R(100), <<1, 100>>), total) \/ RLt(total, RSub(R(100), <<1, 100>>)),
       config.initial_amount < min_initial_amount,
       config.initial_amount > max_initial_amount >>

ClaimedErrors ==
    << MissingField("assets"), MissingField("start_date"), MissingField("end_date"),
       MissingField("initial_amount"), NoAsset, TooManyAssets, BadWeightSum,
       AmountTooSmall, AmountTooLarge >>

FirstFailing(config) ==
    LET failing == {i \in 1..Len(ClaimedErrors) : ClaimedChecks(config)[i]}
    IN  IF failing = {} THEN 0 ELSE CHOOSE i \in failing : \A j \in failing : i <= j

\* C6: run_backtest fails exactly when the config fails one of the listed
\* checks; it then reports the first failing check in the listed order and has
\* neither fetched price data nor simulated.
C6_ValidationBeforeSimulation ==
    pc = "done" =>
        LET k == FirstFailing(args.config)
        IN  /\ (ret.status = "failed") = (k # 0)
            /\ k # 0 => /\ ret.error = ClaimedErrors[k]
                        /\ ret.fetched = 0
                        /\ ~ret.simulated
                        /\ ret.time_series = <<>>
            /\ k = 0 => /\ ret.status = "completed"
                        /\ ret.fetched > 0
                        /\ ret.simulated

\* A config with more than one failing check: too many assets, weights that
\* sum to 120 and an amount below the minimum.
C6_Witness ==
    /\ pc = "done"
    /\ args.config.present = {RequiredFields[i] : i \in 1..Len(RequiredFields)}
    /\ Len(args.config.assets) > max_assets_count
    /\ SumWeights(args.config.assets, 1) = R(120)
    /\ args.config.initial_amount < min_initial_amount
    /\ ret.status = "failed"
    /\ ret.error = TooManyAssets
    /\ ret.fetched = 0

---------------------------------------------------------------------------
(* EnhancedBacktestService.run_backtest_with_transactions.  The series of  *)
(* the model are shorter than the 14-bar window of the RSI and the 20-bar  *)
(* window of the support level, so both indicators are NaN on every row;   *)
(* the MACD is an exponentially weighted mean and is defined from the      *)
(* first row on.                                                           *)

\* A float that is not a number: every comparison with it is False.
NaN == <<0, 0>>
Less(a, b) == a # NaN /\ b # NaN /\ RLt(a, b)
LessEq(a, b) == a # NaN /\ b # NaN /\ RLe(a, b)
Times(a, b) == IF a = NaN \/ b = NaN THEN NaN ELSE RMul(a, b)

IndexError == <<"IndexError", "list index out of range">>

\* EnhancedBacktestService._validate_config
enhanced_validate_config(config) ==
    LET missing == {i \in 1..Len(RequiredFields) : RequiredFields[i] \notin config.present}
    IN  IF missing # {}
        THEN MissingField(RequiredFields[CHOOSE i \in missing : \A j \in missing : i <= j])
        ELSE IF config.assets = <<>> THEN NoAsset
        ELSE IF WeightSumOff(config.assets) THEN BadWeightSum
        ELSE NoError

\* df.index: the positions of the bars of symbol s, ascending.
Bars(stock_data, s) ==
    SelectSeq([k \in 1..Len(stock_data.dates) |-> k],
              LAMBDA k : HasBar(stock_data, s, k))

\* df['Close']
Closes(stock_data, s) ==
    LET bars == Bars(stock_data, s)
    IN  [j \in 1..Len(bars) |-> R(stock_data.close[s][bars[j]])]

RECURSIVE Ewm(_, _, _)
\* series.ewm(span=span, adjust=False).mean(), at row j
Ewm(series, span, j) ==
    IF j = 1 THEN series[1]
    ELSE LET alpha == Norm(2, span + 1)
         IN  RAdd(RMul(RSub(R(1), alpha), Ewm(series, span, j - 1)),
                  RMul(alpha, series[j]))

\* TechnicalIndicators.calculate_macd: the MACD line and its signal line.
MacdLine(closes, j) == RSub(Ewm(closes, 12, j), Ewm(closes, 26, j))
MacdSignal(closes, j) == Ewm([i \in 1..j |-> MacdLine(closes, i)], 9, j)

RECURSIVE CumMax(_, _)
\* df['Close'].cummax(), at row j
CumMax(closes, j) ==
    IF j = 1 THEN closes[1] ELSE RMax(CumMax(closes, j - 1), closes[j])

\* _calculate_indicators, the columns that _simulate_trading reads at row j.
calculate_indicators(closes, j) ==
    [rsi |-> NaN,
     macd |-> MacdLine(closes, j),
     macd_signal |-> MacdSignal(closes, j),
     support_level |-> NaN,
     drawdown |-> RDiv(RSub(closes[j], CumMax(closes, j)), CumMax(closes, j))]

\* (False, "", BuyReason.CUSTOM, {})
NoSignal == [should_buy |-> FALSE, reason |-> "", reason_code |-> "CUSTOM",
             details |-> EmptyDict]

\* (True, reason, reason_code, details).  The reason text is the f-string of
\* the rule, which is never empty; the details hold the values before they
\* are formatted.
Signal(reason_code, details) ==
    [should_buy |-> TRUE, reason |-> reason_code, reason_code |-> reason_code,
     details |-> details]

\* check_buy_signals with the drawdown rule evaluated before the daily drop.
check_buy_signals_drawdown_first(current_price, price_history, indicators, config) ==
    LET n == Len(price_history)
        daily_return == RDiv(RSub(current_price, price_history[n - 1]),
                             price_history[n - 1])
        drop_threshold == Get(config, "daily_drop_threshold", <<-1, 20>>)
        drawdown_threshold == Get(config, "drawdown_threshold", <<-1, 10>>)
        vix_threshold == Get(config, "vix_threshold", R(30))
        rsi_threshold == Get(config, "rsi_oversold", R(30))
        prev_macd == Get(indicators, "prev_macd", R(0))
        prev_signal == Get(indicators, "prev_signal", R(0))
    IN  IF /\ "drawdown" \in DOMAIN indicators
           /\ LessEq(indicators.drawdown, drawdown_threshold)
        THEN Signal("DRAWDOWN", [drawdown |-> indicators.drawdown,
                                 trigger_threshold |-> drawdown_threshold])
        ELSE IF n >= 2 /\ LessEq(daily_return, drop_threshold)
        THEN Signal("PRICE_DROP", [daily_return |-> daily_return,
                                   trigger_threshold |-> drop_threshold])
        ELSE IF /\ "vix" \in DOMAIN indicators
                /\ Less(vix_threshold, indicators.vix)
        THEN Signal("VIX_HIGH", [vix |-> indicators.vix,
                                 trigger_threshold |-> vix_threshold])
        ELSE IF /\ "rsi" \in DOMAIN indicators
                /\ Less(indicators.rsi, rsi_threshold)
        THEN Signal("RSI_OVERSOLD", [rsi |-> indicators.rsi,
                                     trigger_threshold |-> rsi_threshold])
        ELSE IF /\ "macd" \in DOMAIN indicators /\ "macd_signal" \in DOMAIN indicators
                /\ LessEq(prev_macd, prev_signal)
                /\ Less(indicators.macd_signal, indicators.macd)
        THEN Signal("MACD_GOLDEN_CROSS", [macd |-> indicators.macd,
                                          signal |-> indicators.macd_signal])
        ELSE IF /\ "support_level" \in DOMAIN indicators
                /\ LessEq(current_price, Times(indicators.support_level, <<51, 50>>))
        THEN Signal("SUPPORT_LEVEL", [price |-> current_price,
                                      support_level |-> indicators.support_level])
        ELSE NoSignal

\* TransactionAnalyzer.check_buy_signals: the first signal that fires.
check_buy_signals(current_price, price_history, indicators, config) ==
    LET n == Len(price_history)
        daily_return == RDiv(RSub(current_price, price_history[n - 1]),
                             price_history[n - 1])
        drop_threshold == Get(config, "daily_drop_threshold", <<-1, 20>>)
        drawdown_threshold == Get(config, "drawdown_threshold", <<-1, 10>>)
        vix_threshold == Get(config, "vix_threshold", R(30))
        rsi_threshold == Get(config, "rsi_oversold", R(30))
        prev_macd == Get(indicators, "prev_macd", R(0))
        prev_signal == Get(indicators, "prev_signal", R(0))
    IN  IF n >= 2 /\ LessEq(daily_return, drop_threshold)
        THEN Signal("PRICE_DROP", [daily_return |-> daily_return,
                                   trigger_threshold |-> drop_threshold])
        ELSE IF /\ "drawdown" \in DOMAIN indicators
                /\ LessEq(indicators.drawdown, drawdown_threshold)
        THEN Signal("DRAWDOWN", [drawdown |-> indicators.drawdown,
                                 trigger_threshold |-> drawdown_threshold])
        ELSE IF /\ "vix" \in DOMAIN indicators
                /\ Less(vix_threshold, indicators.vix)
        THEN Signal("VIX_HIGH", [vix |-> indicators.vix,
                                 trigger_threshold |-> vix_threshold])
        ELSE IF /\ "rsi" \in DOMAIN indicators
                /\ Less(indicators.rsi, rsi_threshold)
        THEN Signal("RSI_OVERSOLD", [rsi |-> indicators.rsi,
                                     trigger_threshold |-> rsi_threshold])
        ELSE IF /\ "macd" \in DOMAIN indicators /\ "macd_signal" \in DOMAIN indicators
                /\ LessEq(prev_macd, prev_signal)
                /\ Less(indicators.macd_signal, indicators.macd)
        THEN Signal("MACD_GOLDEN_CROSS", [macd |-> indicators.macd,
                                          signal |-> indicators.macd_signal])
        ELSE IF /\ "support_level" \in DOMAIN indicators
                /\ LessEq(current_price, Times(indicators.support_level, <<51, 50>>))
        THEN Signal("SUPPORT_LEVEL", [price |-> current_price,
                                      support_level |-> indicators.support_level])
        ELSE NoSignal

\* _record_transaction
Transaction(date, symbol, shares, price, amount, reason_code, value) ==
    [date |-> date, symbol |-> symbol, transaction_type |-> "buy", shares |-> shares,
     price |-> price, amount |-> amount, reason_code |-> reason_code,
     portfolio_value_before |-> value, portfolio_value_after |-> value]

\* The keys of a dict built from the assets, in the order a dict keeps them:
\* each symbol once, at the place of its first asset.
Keys(assets) ==
    LET first == SelectSeq([i \in 1..Len(assets) |-> i],
                           LAMBDA i : \A j \in 1..(i - 1) :
                                        assets[j].symbol # assets[i].symbol)
    IN  [n \in 1..Len(first) |-> assets[first[n]].symbol]

\* stock_dataframes.keys(): the symbols of the assets that have data, in the
\* order of the assets.
Fetched(stock_data, assets) ==
    SelectSeq(Keys(assets), LAMBDA s : s \in NonEmpty(stock_data))

RECURSIVE InitialBuys(_, _, _, _, _)
\* Lines 184-208: each symbol of the weights dict (lines 166-169: one entry
\* per symbol, with the weight of its last asset) with a bar on the first
\* date is bought for its share of the initial amount.
InitialBuys(stock_data, config, first, i, st) ==
    IF i > Len(Keys(config.assets)) THEN st
    ELSE LET symbol == Keys(config.assets)[i]
             weight == RDiv(WeightsOf(config.assets)[symbol], R(100))
             price == R(stock_data.close[symbol][first])
             amount_to_invest == RMul(R(config.initial_amount), weight)
             shares == RDiv(amount_to_invest, price)
         IN  IF HasBar(stock_data, symbol, first)
             THEN InitialBuys(stock_data, config, first, i + 1,
                    [st EXCEPT
                        !.holdings[symbol] = shares,
                        !.cash = RSub(st.cash, amount_to_invest),
                        !.transactions =
                            Append(st.transactions,
                                   Transaction(stock_data.dates[first], symbol, shares,
                                               price, amount_to_invest, "INITIAL",
                                               R(config.initial_amount)))])
             ELSE InitialBuys(stock_data, config, first, i + 1, st)

RMin(a, b) == IF RLt(b, a) THEN b ELSE a

\* Lines 222-243: what check_buy_signals returns for the symbol on date k,
\* on which it has a bar, from its closes up to that date and the indicators
\* of the row.
SignalOn(stock_data, buy_conditions, symbol, k) ==
    LET bars == Bars(stock_data, symbol)
        j == CHOOSE i \in 1..Len(bars) : bars[i] = k
        closes == Closes(stock_data, symbol)
    IN  check_buy_signals(closes[j], SubSeq(closes, 1, j),
                          calculate_indicators(closes, j), buy_conditions)

\* Lines 246-268 for a signal that fired.
Buy(stock_data, symbol, k, signal, portfolio_value, st) ==
    LET price == R(stock_data.close[symbol][k])
        buy_amount == RMin(RMul(st.cash, <<1, 5>>), st.cash)
        shares_to_buy == RDiv(buy_amount, price)
    IN  [st EXCEPT
            !.holdings[symbol] = RAdd(@, shares_to_buy),
            !.cash = RSub(st.cash, buy_amount),
            !.transactions =
                Append(st.transactions,
                       Transaction(stock_data.dates[k], symbol, shares_to_buy, price,
                                   buy_amount, signal.reason_code, portfolio_value))]

\* Lines 221-268 without the test of the cash: a signal that fires is bought.
BuyOnSignalWithoutCashGate(stock_data, buy_conditions, symbol, k, portfolio_value, st) ==
    IF ~HasBar(stock_data, symbol, k) THEN st
    ELSE LET signal == SignalOn(stock_data, buy_conditions, symbol, k)
         IN  IF signal.should_buy
             THEN Buy(stock_data, symbol, k, signal, portfolio_value, st)
             ELSE st

\* Lines 221-268: the symbol, if it has a bar on date k and its signal fires
\* while more than 100 of cash is left, is bought for a fifth of the cash.
BuyOnSignal(stock_data, buy_conditions, symbol, k, portfolio_value, st) ==
    IF ~HasBar(stock_data, symbol, k) THEN st
    ELSE LET signal == SignalOn(stock_data, buy_conditions, symbol, k)
         IN  IF signal.should_buy /\ RLt(R(100), st.cash)
             THEN Buy(stock_data, symbol, k, signal, portfolio_value, st)
             ELSE st

RECURSIVE SignalBuys(_, _, _, _, _, _, _)
\* Lines 220-268: the symbols with data, one after the other.
SignalBuys(stock_data, buy_conditions, order, n, k, portfolio_value, st) ==
    IF n > Len(order) THEN st
    ELSE SignalBuys(stock_data, buy_conditions, order, n + 1, k, portfolio_value,
                    BuyOnSignal(stock_data, buy_conditions, order[n], k,
                                portfolio_value, st))

\* Lines 211-276 on the date at position i of all_dates: the value before
\* the day's purchases, the purchases, the entry of the day.
TradingStep(stock_data, buy_conditions, order, i, st) ==
    LET k == AllDates(stock_data)[i]
        portfolio_value == RAdd(st.cash, HoldingsValue(stock_data, st.holdings, k))
        bought == SignalBuys(stock_data, buy_conditions, order, 1, k,
                             portfolio_value, st)
    IN  [bought EXCEPT
            !.portfolio_values =
                Append(@, [date |-> stock_data.dates[k],
                           value |-> portfolio_value,
                           cash |-> bought.cash,
                           holdings_value |-> RSub(portfolio_value, bought.cash)])]

RECURSIVE TradingLoop(_, _, _, _, _)
TradingLoop(stock_data, buy_conditions, order, i, st) ==
    IF i > Len(AllDates(stock_data)) THEN st
    ELSE TradingLoop(stock_data, buy_conditions, order, i + 1,
                     TradingStep(stock_data, buy_conditions, order, i, st))

\* _simulate_trading on a ledger that holds transactions already; defined
\* when some symbol has data (all_dates[0] raises IndexError otherwise).
simulate_trading(transactions_before, stock_data, config) ==
    LET order == Fetched(stock_data, config.assets)
        begin == [cash |-> R(config.initial_amount),
                  holdings |-> [s \in NonEmpty(stock_data) |-> R(0)],
                  transactions |-> transactions_before,
                  portfolio_values |-> <<>>]
    IN  TradingLoop(stock_data, config.buy_conditions, order, 1,
                    InitialBuys(stock_data, config, AllDates(stock_data)[1], 1, begin))

\* A mutant of line 50: the ledger of the instance is not cleared.
keep_transactions(transactions_before) == transactions_before

\* Line 50: self.transactions = []
clear_transactions(transactions_before) == <<>>

\* The run on an instance whose ledger holds transactions_before: what it
\* returns and the ledger it leaves.
run_backtest_with_transactions(transactions_before, config, market) ==
    LET cleared == clear_transactions(transactions_before)
        error == enhanced_validate_config(config)
    IN  IF error # NoError
        THEN [result |-> RunFailed(error, 0, FALSE), transactions |-> cleared]
        ELSE
        LET stock_data == get_multiple_stocks_data(SymbolsOf(config.assets), market)
        IN  IF AllDates(stock_data) = <<>>
            THEN [result |-> RunFailed(IndexError, 1, TRUE), transactions |-> cleared]
            ELSE
            LET sim == simulate_trading(cleared, stock_data, config)
            IN  IF \/ RiskMetricsRaises(sim.portfolio_values)
                   \/ AnnualReturnsRaises(sim.portfolio_values)
                THEN [result |-> RunFailed(KeyError("daily_return"), 1, TRUE),
                      transactions |-> sim.transactions]
                ELSE [result |->
                        RunCompleted(sim.portfolio_values,
                                     calculate_risk_metrics(sim.portfolio_values),
                                     calculate_annual_returns(sim.portfolio_values), 1),
                      transactions |-> sim.transactions]

---------------------------------------------------------------------------
(* Runs, one after the other: run_backtest on a BacktestService, which has *)
(* no state of its own, and run_backtest_with_transactions on one          *)
(* EnhancedBacktestService, whose ledger outlives the run.                 *)

MaxRuns == 2

AllPresent == {RequiredFields[i] : i \in 1..Len(RequiredFields)}

RunAssetLists ==
    { <<Asset("A", R(60)), Asset("B", R(40))>>,
      <<Asset("A", R(60)), Asset("B", R(60))>> }

\* buy_conditions: the default thresholds, or a daily drop threshold of -60%.
BuyConditions == { EmptyDict, [daily_drop_threshold |-> <<-3, 5>>] }

RunConfigs ==
    { [present |-> AllPresent,
       assets |-> assets,
       start_date |-> <<2020, 1, 1>>,
       end_date |-> <<2020, 3, 31>>,
       initial_amount |-> 1000,
       rebalance_frequency |-> "none",
       buy_conditions |-> buy_conditions] :
        assets \in RunAssetLists, buy_conditions \in BuyConditions }

InitRuns ==
    /\ args = Idle
    /\ ret = Idle
    /\ pc = "call"
    /\ loc = Idle
    /\ ServicesIdle

Run(entry, config, market, result, ledger) ==
    [entry |-> entry, config |-> config, market |-> market, result |-> result,
     transactions |-> ledger]

RunBacktest ==
    /\ Len(history) < MaxRuns
    /\ \E config \in RunConfigs, market \in Markets :
        /\ config.buy_conditions = EmptyDict
        /\ args' = [config |-> config, market |-> market]
        /\ ret' = run_backtest(config, market)
        /\ history' = Append(history, Run("run_backtest", config, market, ret', <<>>))
    /\ pc' = "done"
    /\ UNCHANGED <<loc, transactions>>

RunBacktestWithTransactions ==
    /\ Len(history) < MaxRuns
    /\ \E config \in RunConfigs, market \in Markets :
        \E out \in {run_backtest_with_transactions(transactions, config, market)} :
            /\ args' = [config |-> config, market |-> market]
            /\ ret' = out.result
            /\ transactions' = out.transactions
            /\ history' = Append(history,
                    Run("run_backtest_with_transactions", config, market,
                        out.result, out.transactions))
    /\ pc' = "done"
    /\ UNCHANGED loc

NextRuns == RunBacktest \/ RunBacktestWithTransactions

SpecRuns == InitRuns /\ [][NextRuns]_vars

SameInputs(a, b) ==
    a.entry = b.entry /\ a.config = b.config /\ a.market = b.market

\* What the run would return, and the ledger it would leave, on an instance
\* that has run nothing before.
OnFreshInstance(run) ==
    IF run.entry = "run_backtest"
    THEN [result |-> run_backtest(run.config, run.market), transactions |-> <<>>]
    ELSE run_backtest_with_transactions(<<>>, run.config, run.market)

\* C7: two runs of the no-rebalance simulation on identical inputs give the
\* same time series, transactions and risk metrics, whatever the instance
\* has run before.
C7_RunsAreDeterministic ==
    /\ \A i, j \in 1..Len(history) :
        SameInputs(history[i], history[j]) =>
            /\ history[i].result = history[j].result
            /\ history[i].transactions = history[j].transactions
    /\ \A i \in 1..Len(history) :
        /\ history[i].result = OnFreshInstance(history[i]).result
        /\ history[i].transactions = OnFreshInstance(history[i]).transactions

\* The same inputs run twice on the instance that keeps a ledger, with
\* purchases recorded both times.
C7_Witness ==
    /\ Len(history) = 2
    /\ history[1].entry = "run_backtest_with_transactions"
    /\ SameInputs(history[1], history[2])
    /\ Len(history[1].transactions) > 2
    /\ history[2].transactions = history[1].transactions

\* C10: a run of run_backtest_with_transactions on a config that passes
\* validation, with bars for at least one asset, completes, with one entry
\* per trading date.
C10_EnhancedRunCompletes ==
    \A i \in 1..Len(history) :
        LET run == history[i]
            stock_data == get_multiple_stocks_data(SymbolsOf(run.config.assets),
                                                   run.market)
        IN  (/\ run.entry = "run_backtest_with_transactions"
             /\ enhanced_validate_config(run.config) = NoError
             /\ AllDates(stock_data) # <<>>) =>
                /\ run.result.status = "completed"
                /\ Len(run.result.time_series) = Len(AllDates(stock_data))

---------------------------------------------------------------------------
(* DCAService.run_periodic_dca and run_conditional_dca, and the entry      *)
(* points that take a list of weighted assets, each called once.           *)

\* One pass of the loop of _calculate_conditional_dca_returns; trigger_dict
\* keeps, for a date with several triggers, the last of them.
ConditionalStep(stock_data, weights, triggers, st) ==
    LET k == st.all_dates[st.i]
        date == stock_data.dates[k]
        hits == {n \in 1..Len(triggers) : triggers[n].date = date}
        triggered == hits # {}
        trigger == triggers[CHOOSE n \in hits : \A m \in hits : m <= n]
        shares == IF triggered
                  THEN BuyByWeight(stock_data, weights, st.shares,
                                   trigger.amount, k)
                  ELSE st.shares
        total_invested == IF triggered
                          THEN RAdd(st.total_invested, R(trigger.amount))
                          ELSE st.total_invested
        portfolio_value == HoldingsValue(stock_data, shares, k)
    IN  [st EXCEPT
            !.i = st.i + 1,
            !.shares = shares,
            !.total_invested = total_invested,
            !.results = Append(st.results,
                   [date |-> date, invested |-> total_invested,
                    value |-> portfolio_value,
                    return_pct |->
                       IF RLt(R(0), total_invested)
                       THEN RMul(RDiv(RSub(portfolio_value, total_invested),
                                      total_invested), R(100))
                       ELSE R(0),
                    triggered |-> triggered])]

RECURSIVE ConditionalLoop(_, _, _, _)
ConditionalLoop(stock_data, weights, triggers, st) ==
    IF st.i > Len(st.all_dates) THEN st
    ELSE ConditionalLoop(stock_data, weights, triggers,
                         ConditionalStep(stock_data, weights, triggers, st))

calculate_conditional_dca_returns(stock_data, weights, initial_amount, triggers) ==
    DcaResult(ConditionalLoop(stock_data, weights, triggers,
                              DcaBeginLocals(stock_data, weights, initial_amount)))

\* _calculate_dca_metrics, without the best and the worst return.
calculate_dca_metrics(results) ==
    IF results.time_series = <<>> THEN EmptyDict
    ELSE LET n == Len(results.time_series)
             total_invested == results.total_invested
             final_value == results.time_series[n].value
         IN  [total_invested |-> total_invested,
              final_value |-> final_value,
              total_return |-> RSub(final_value, total_invested),
              total_return_pct |->
                  IF RLt(R(0), total_invested)
                  THEN RMul(RDiv(RSub(final_value, total_invested), total_invested),
                            R(100))
                  ELSE R(0),
              average_cost |-> RDiv(total_invested, R(n)),
              current_return |-> results.time_series[n].return_pct]

NoData == <<"ValueError", "No valid stock data retrieved">>

\* The except branch of an entry point, were it to raise again.
DcaRaised(error) ==
    [status |-> "raised", error |-> error, time_series |-> <<>>,
     final_shares |-> EmptyDict, performance |-> EmptyDict, count |-> 0]

\* What a DCA run returns; final_shares is not part of the dict, it is the
\* holding the simulation ended with.
DcaFailed(error) ==
    [status |-> "failed", error |-> error, time_series |-> <<>>,
     final_shares |-> EmptyDict, performance |-> EmptyDict, count |-> 0]

DcaCompleted(results, count) ==
    [status |-> "completed", error |-> NoError, time_series |-> results.time_series,
     final_shares |-> results.final_shares,
     performance |-> calculate_dca_metrics(results), count |-> count]

run_periodic_dca(dca_config, market) ==
    LET stock_data == get_multiple_stocks_data(SymbolsOf(dca_config.assets), market)
    IN  IF AllDates(stock_data) = <<>> THEN DcaFailed(NoData)
        ELSE LET investment_dates ==
                    generate_investment_dates(dca_config.start_date,
                                              dca_config.end_date,
                                              dca_config.frequency,
                                              dca_config.frequency_config)
             IN  DcaCompleted(
                    calculate_dca_returns(stock_data, WeightsOf(dca_config.assets),
                                          dca_config.initial_amount,
                                          dca_config.investment_amount,
                                          investment_dates),
                    Len(investment_dates))

run_conditional_dca(dca_config, market) ==
    LET stock_data == get_multiple_stocks_data(SymbolsOf(dca_config.assets), market)
    IN  IF AllDates(stock_data) = <<>> THEN DcaFailed(NoData)
        ELSE LET triggers == detect_condition_triggers(stock_data,
                                                       dca_config.conditions)
             IN  DcaCompleted(
                    calculate_conditional_dca_returns(
                        stock_data, WeightsOf(dca_config.assets),
                        dca_config.initial_amount, triggers),
                    Len(triggers))

\* Weights that sum to 100, to 120 and to 80.
EntryAssetLists ==
    { <<Asset("A", R(60)), Asset("B", R(40))>>,
      <<Asset("A", R(60)), Asset("B", R(60))>>,
      <<Asset("A", R(50)), Asset("B", R(30))>> }

EntryConfigs(entry) ==
    LET base(assets) == [present |-> AllPresent, assets |-> assets,
                         start_date |-> <<2020, 1, 1>>, end_date |-> <<2020, 3, 31>>,
                         initial_amount |-> 1000]
    IN  IF entry = "run_backtest_with_transactions"
        THEN {base(assets) @@ [buy_conditions |-> buy_conditions] :
                assets \in EntryAssetLists, buy_conditions \in BuyConditions}
        ELSE IF entry = "run_periodic_dca"
        THEN {base(assets) @@ [investment_amount |-> 100,
                               frequency |-> schedule.frequency,
                               frequency_config |-> schedule.frequency_config] :
                assets \in EntryAssetLists, schedule \in DcaSchedules}
        ELSE {base(assets) @@ [conditions |-> conditions] :
                assets \in EntryAssetLists, conditions \in ConditionLists}

InitEntryPoints ==
    /\ \E entry \in {"run_backtest_with_transactions", "run_periodic_dca",
                     "run_conditional_dca"} :
        \E config \in EntryConfigs(entry), market \in Markets :
            args = [entry |-> entry, config |-> config, market |-> market]
    /\ ret = Idle
    /\ pc = "call"
    /\ loc = Idle
    /\ ServicesIdle

CallRunBacktestWithTransactions ==
    /\ pc = "call"
    /\ args.entry = "run_backtest_with_transactions"
    /\ \E out \in {run_backtest_with_transactions(transactions, args.config, args.market)} :
        /\ ret' = out.result
        /\ transactions' = out.transactions
    /\ pc' = "done"
    /\ UNCHANGED <<args, loc, history>>

CallRunPeriodicDca ==
    /\ pc = "call"
    /\ args.entry = "run_periodic_dca"
    /\ ret' = run_periodic_dca(args.config, args.market)
    /\ pc' = "done"
    /\ UNCHANGED <<args, loc, services>>

CallRunConditionalDca ==
    /\ pc = "call"
    /\ args.entry = "run_conditional_dca"
    /\ ret' = run_conditional_dca(args.config, args.market)
    /\ pc' = "done"
    /\ UNCHANGED <<args, loc, services>>

NextEntryPoints ==
    CallRunBacktestWithTransactions \/ CallRunPeriodicDca \/ CallRunConditionalDca

SpecEntryPoints == InitEntryPoints /\ [][NextEntryPoints]_vars

\* C5: each of the three entry points rejects weights that do not sum to 100
\* within 0.01: the run fails, no time-series entry is produced and no share
\* is bought.
C5_BadWeightsRejected ==
    (pc = "done" /\ WeightSumOff(args.config.assets)) =>
        /\ ret.status = "failed"
        /\ ret.time_series = <<>>
        /\ transactions = <<>>
        /\ args.entry # "run_backtest_with_transactions" =>
                \A s \in DOMAIN ret.final_shares : ret.final_shares[s] = R(0)

---------------------------------------------------------------------------
(* TransactionAnalyzer.check_buy_signals on its own: a current price, a    *)
(* price history that ends with it, an indicators dict in which each key   *)
(* may be absent, and the buy conditions.                                  *)

SignalPrices == {R(1), R(2)}

\* The dicts that have the key with one of the values, or do not have it.
Optional(key, values) == {EmptyDict} \cup {key :> v : v \in values}

Indicators ==
    { drawdown @@ vix @@ rsi @@ macd @@ prev @@ support :
        drawdown \in Optional("drawdown", {R(0), <<-1, 2>>}),
        vix \in Optional("vix", {R(20), R(40)}),
        rsi \in Optional("rsi", {R(20), R(50), NaN}),
        macd \in {EmptyDict, [macd |-> R(1)], [macd |-> R(1), macd_signal |-> R(0)],
                  [macd |-> R(0), macd_signal |-> R(1)]},
        prev \in {EmptyDict, [prev_macd |-> R(1), prev_signal |-> R(0)],
                  [prev_macd |-> R(-1), prev_signal |-> R(0)]},
        support \in Optional("support_level", {R(1), NaN}) }

InitSignals ==
    /\ \E current_price \in SignalPrices, earlier \in SeqsUpTo(SignalPrices, 1),
          indicators \in Indicators, config \in BuyConditions :
            args = [current_price |-> current_price,
                    price_history |-> Append(earlier, current_price),
                    indicators |-> indicators, config |-> config]
    /\ ret = Idle
    /\ pc = "call"
    /\ loc = Idle
    /\ ServicesIdle

CallCheckBuySignals ==
    /\ pc = "call"
    /\ ret' = check_buy_signals(args.current_price, args.price_history,
                                args.indicators, args.config)
    /\ pc' = "done"
    /\ UNCHANGED <<args, loc, services>>

NextSignals == CallCheckBuySignals

SpecSignals == InitSignals /\ [][NextSignals]_vars

\* The rules in their order, the reason code and the detail keys of each.
SignalRules ==
    << [reason_code |-> "PRICE_DROP", details |-> {"daily_return", "trigger_threshold"}],
       [reason_code |-> "DRAWDOWN", details |-> {"drawdown", "trigger_threshold"}],
       [reason_code |-> "VIX_HIGH", details |-> {"vix", "trigger_threshold"}],
       [reason_code |-> "RSI_OVERSOLD", details |-> {"rsi", "trigger_threshold"}],
       [reason_code |-> "MACD_GOLDEN_CROSS", details |-> {"macd", "signal"}],
       [reason_code |-> "SUPPORT_LEVEL", details |-> {"price", "support_level"}] >>

\* Rule i matches the inputs a.
RuleMatches(i, a) ==
    LET ind == a.indicators
        n == Len(a.price_history)
    IN  CASE i = 1 ->
                /\ n >= 2
                /\ RLe(RDiv(RSub(a.current_price, a.price_history[n - 1]),
                            a.price_history[n - 1]),
                       Get(a.config, "daily_drop_threshold", <<-1, 20>>))
          [] i = 2 ->
                /\ "drawdown" \in DOMAIN ind
                /\ RLe(ind.drawdown, Get(a.config, "drawdown_threshold", <<-1, 10>>))
          [] i = 3 ->
                /\ "vix" \in DOMAIN ind
                /\ RLt(Get(a.config, "vix_threshold", R(30)), ind.vix)
          [] i = 4 ->
                /\ "rsi" \in DOMAIN ind /\ ind.rsi # NaN
                /\ RLt(ind.rsi, Get(a.config, "rsi_oversold", R(30)))
          [] i = 5 ->
                /\ {"macd", "macd_signal"} \subseteq DOMAIN ind
                /\ RLe(Get(ind, "prev_macd", R(0)), Get(ind, "prev_signal", R(0)))
                /\ RLt(ind.macd_signal, ind.macd)
          [] i = 6 ->
                /\ "support_level" \in DOMAIN ind /\ ind.support_level # NaN
                /\ RLe(a.current_price, RMul(ind.support_level, <<51, 50>>))

Matching(a) == {i \in 1..Len(SignalRules) : RuleMatches(i, a)}
FirstMatching(a) == CHOOSE i \in Matching(a) : \A j \in Matching(a) : i <= j

\* C13: check_buy_signals returns the reason code and the detail of the
\* first rule that matches, in the order daily drop, drawdown, VIX, RSI, MACD
\* golden cross, support level; it returns not-triggered, with an empty
\* reason and an empty detail, exactly when no rule matches.
C13_FirstMatchingRuleWins ==
    pc = "done" =>
        /\ ret.should_buy <=> Matching(args) # {}
        /\ ~ret.should_buy => ret.reason = "" /\ ret.details = EmptyDict
        /\ ret.should_buy =>
                /\ ret.reason # ""
                /\ ret.reason_code = SignalRules[FirstMatching(args)].reason_code
                /\ DOMAIN ret.details = SignalRules[FirstMatching(args)].details

\* A call in which the daily drop, the drawdown and the MACD rules all match
\* and the daily drop is reported.
C13_Witness ==
    /\ pc = "done"
    /\ {1, 2, 5} \subseteq Matching(args)
    /\ ret.reason_code = "PRICE_DROP"

---------------------------------------------------------------------------
(* EnhancedBacktestService._simulate_trading, step by step: the initial    *)
(* purchase, then for each date of the date union the value of the         *)
(* portfolio, the signal of each symbol in turn, and the entry of the      *)
(* date.  loc holds the locals of the method and the ledger it appends to. *)

TrMaxPrice == 2

TrDates == << <<2020, 1, 2>>, <<2020, 1, 15>>, <<2020, 2, 3>> >>

TrMarkets ==
    { Market(TrDates, a, b) :
        a \in [1..Len(TrDates) -> 0..TrMaxPrice],
        b \in {<<2, 2, 1>>, <<1, 2, 2>>, <<0, 1, 1>>, <<0, 0, 0>>} }

\* Weights that sum to 100, to 100.005 and to 100 with a tenth for A.
TrAssetLists ==
    { <<Asset("A", R(60)), Asset("B", R(40))>>,
      <<Asset("A", R(50)), Asset("B", <<10001, 200>>)>>,
      <<Asset("A", R(10)), Asset("B", R(90))>> }

TrConfigs ==
    { [present |-> AllPresent, assets |-> assets,
       start_date |-> <<2020, 1, 1>>, end_date |-> <<2020, 3, 31>>,
       initial_amount |-> 1000, buy_conditions |-> buy_conditions] :
        assets \in TrAssetLists, buy_conditions \in BuyConditions }

InitTrading ==
    /\ \E config \in TrConfigs, market \in TrMarkets :
        args = [config |-> config,
                stock_data |-> get_multiple_stocks_data(SymbolsOf(config.assets), market)]
    /\ ret = Idle
    /\ pc = "call"
    /\ loc = Idle
    /\ ServicesIdle

\* Lines 165-208.  all_dates[0] raises IndexError when no symbol has a bar.
TrBegin ==
    /\ pc = "call"
    /\ IF AllDates(args.stock_data) = <<>>
       THEN /\ pc' = "raised"
            /\ ret' = IndexError
            /\ UNCHANGED loc
       ELSE /\ pc' = "date"
            /\ loc' = InitialBuys(args.stock_data, args.config,
                                  AllDates(args.stock_data)[1], 1,
                                  [cash |-> R(args.config.initial_amount),
                                   holdings |-> [s \in NonEmpty(args.stock_data) |-> R(0)],
                                   transactions |-> <<>>,
                                   portfolio_values |-> <<>>])
                        @@ [i |-> 1, n |-> 1, portfolio_value |-> R(0)]
            /\ UNCHANGED ret
    /\ UNCHANGED <<args, services>>

\* Lines 211-217: the value of the portfolio on the date, before its purchases.
TrValue ==
    /\ pc = "date"
    /\ loc.i <= Len(AllDates(args.stock_data))
    /\ loc' = [loc EXCEPT
                !.n = 1,
                !.portfolio_value =
                    RAdd(loc.cash,
                         HoldingsValue(args.stock_data, loc.holdings,
                                       AllDates(args.stock_data)[loc.i]))]
    /\ pc' = "symbol"
    /\ UNCHANGED <<args, ret, services>>

\* Lines 220-268 for the next symbol of stock_dataframes.keys().
TrSignal ==
    /\ pc = "symbol"
    /\ loc.n <= Len(Fetched(args.stock_data, args.config.assets))
    /\ \E bought \in {BuyOnSignal(args.stock_data, args.config.buy_conditions,
                                   Fetched(args.stock_data, args.config.assets)[loc.n],
                                   AllDates(args.stock_data)[loc.i],
                                   loc.portfolio_value, loc)} :
            loc' = [bought EXCEPT !.n = loc.n + 1]
    /\ UNCHANGED <<args, ret, pc, services>>

\* Lines 270-276: the entry of the date.
TrRecord ==
    /\ pc = "symbol"
    /\ loc.n > Len(Fetched(args.stock_data, args.config.assets))
    /\ loc' = [loc EXCEPT
                !.i = loc.i + 1,
                !.portfolio_values =
                    Append(@, [date |-> args.stock_data.dates[AllDates(args.stock_data)[loc.i]],
                               value |-> loc.portfolio_value,
                               cash |-> loc.cash,
                               holdings_value |-> RSub(loc.portfolio_value, loc.cash)])]
    /\ pc' = "date"
    /\ UNCHANGED <<args, ret, services>>

\* Line 278
TrReturn ==
    /\ pc = "date"
    /\ loc.i > Len(AllDates(args.stock_data))
    /\ ret' = loc.portfolio_values
    /\ pc' = "done"
    /\ UNCHANGED <<args, loc, services>>

NextTrading == TrBegin \/ TrValue \/ TrSignal \/ TrRecord \/ TrReturn

SpecTrading == InitTrading /\ [][NextTrading]_vars

\* The stepped method computes what simulate_trading computes.
TradingStepsAgree ==
    pc = "done" =>
        LET sim == simulate_trading(<<>>, args.stock_data, args.config)
        IN  /\ ret = sim.portfolio_values
            /\ loc.transactions = sim.transactions
            /\ loc.cash = sim.cash
            /\ loc.holdings = sim.holdings

InSimulation == pc \in {"date", "symbol", "done"}

\* C11: for a config that passes validation, cash and every share count are
\* >= 0 after the initial allocation, after each buy and in every entry of
\* the time series.
C11_CashAndSharesNonNegative ==
    (InSimulation /\ enhanced_validate_config(args.config) = NoError) =>
        /\ RLe(R(0), loc.cash)
        /\ \A s \in DOMAIN loc.holdings : RLe(R(0), loc.holdings[s])
        /\ \A e \in 1..Len(loc.portfolio_values) : RLe(R(0), loc.portfolio_values[e].cash)

\* What a step of the loop over the symbols does, for the claim below.
C12_SignalStep ==
    (pc = "symbol" /\ pc' = "symbol") =>
        LET symbol == Fetched(args.stock_data, args.config.assets)[loc.n]
            k == AllDates(args.stock_data)[loc.i]
            triggered ==
                /\ HasBar(args.stock_data, symbol, k)
                /\ SignalOn(args.stock_data, args.config.buy_conditions, symbol, k).should_buy
            amount == IF RLt(loc.cash, RMul(loc.cash, <<1, 5>>)) THEN loc.cash
                      ELSE RMul(loc.cash, <<1, 5>>)
            before == Len(loc.transactions)
        IN  IF triggered /\ RLt(R(100), loc.cash)
            THEN /\ loc'.cash = RSub(loc.cash, amount)
                 /\ loc'.holdings =
                        [loc.holdings EXCEPT
                            ![symbol] = RAdd(@, RDiv(amount, R(args.stock_data.close[symbol][k])))]
                 /\ Len(loc'.transactions) = before + 1
                 /\ SubSeq(loc'.transactions, 1, before) = loc.transactions
                 /\ loc'.transactions[before + 1].transaction_type = "buy"
                 /\ loc'.transactions[before + 1].symbol = symbol
                 /\ loc'.transactions[before + 1].amount = amount
            ELSE /\ loc'.cash = loc.cash
                 /\ loc'.holdings = loc.holdings
                 /\ loc'.transactions = loc.transactions

C14_GoldenCrossNeedsCrossing ==
    (pc = "symbol" /\ loc.n <= Len(Fetched(args.stock_data, args.config.assets))) =>
        LET symbol == Fetched(args.stock_data, args.config.assets)[loc.n]
            k == AllDates(args.stock_data)[loc.i]
            bars == Bars(args.stock_data, symbol)
            j == CHOOSE i \in 1..Len(bars) : bars[i] = k
            closes == Closes(args.stock_data, symbol)
        IN  (/\ HasBar(args.stock_data, symbol, k)
             /\ SignalOn(args.stock_data, args.config.buy_conditions, symbol, k).reason_code
                    = "MACD_GOLDEN_CROSS") =>
                /\ j >= 2
                /\ RLe(MacdLine(closes, j - 1), MacdSignal(closes, j - 1))
                /\ RLt(MacdSignal(closes, j), MacdLine(closes, j))

---------------------------------------------------------------------------
(* The simulators side by side, each stepped one date of the date union at *)
(* a time: calculate_portfolio_values, apply_rebalancing, the two DCA      *)
(* return calculators and _simulate_trading.  loc holds the locals of the  *)
(* simulator that runs.                                                    *)

SimAssets == <<Asset("A", R(60)), Asset("B", R(40))>>

SimTrigger(k) == [date |-> TrDates[k], amount |-> 100]

\* The simulator, and the arguments that are its own.
SimCalls ==
    {[simulator |-> "calculate_portfolio_values"]}
    \cup {[simulator |-> "apply_rebalancing", frequency |-> f] : f \in {"none", "monthly"}}
    \cup {[simulator |-> "calculate_dca_returns", investment_amount |-> 100,
            investment_dates |-> d] :
                d \in {<<>>, <<TrDates[2]>>, <<TrDates[1], TrDates[3]>>}}
    \cup {[simulator |-> "calculate_conditional_dca_returns", triggers |-> t] :
                t \in {<<>>, <<SimTrigger(2)>>, <<SimTrigger(2), SimTrigger(3)>>}}
    \cup {[simulator |-> "simulate_trading", buy_conditions |-> b] : b \in BuyConditions}

InitSimulators ==
    /\ \E call \in SimCalls, market \in TrMarkets :
        args = call @@ [assets |-> SimAssets, initial_amount |-> 1000,
                        stock_data |-> get_multiple_stocks_data(SymbolsOf(SimAssets), market)]
    /\ ret = Idle
    /\ pc = "call"
    /\ loc = Idle
    /\ ServicesIdle

\* What the simulator returns for the arguments: its time series.
SimResult(a) ==
    LET weights == WeightsOf(a.assets)
    IN  CASE a.simulator = "calculate_portfolio_values" ->
                calculate_portfolio_values(a.stock_data, weights, a.initial_amount)
          [] a.simulator = "apply_rebalancing" ->
                apply_rebalancing(a.stock_data, weights, a.initial_amount, a.frequency)
          [] a.simulator = "calculate_dca_returns" ->
                calculate_dca_returns(a.stock_data, weights, a.initial_amount,
                                      a.investment_amount, a.investment_dates).time_series
          [] a.simulator = "calculate_conditional_dca_returns" ->
                calculate_conditional_dca_returns(a.stock_data, weights,
                                                  a.initial_amount, a.triggers).time_series
          [] a.simulator = "simulate_trading" ->
                simulate_trading(<<>>, a.stock_data, a).portfolio_values

\* Whether apply_rebalancing takes the periodic branch.
SimPeriodic(a) ==
    a.simulator = "apply_rebalancing" /\ a.frequency \in {"yearly", "quarterly", "monthly"}

\* The locals of the simulator when it enters its loop over the dates, the
\* initial purchase made.
SimBeginLocals(a) ==
    LET weights == WeightsOf(a.assets)
        all_dates == AllDates(a.stock_data)
        hold(shares) == [i |-> 1, all_dates |-> all_dates, shares |-> shares,
                         portfolio_values |-> <<>>]
    IN  CASE a.simulator = "calculate_portfolio_values" ->
                hold(InitialShares(a.stock_data, weights, a.initial_amount, all_dates[1]))
          [] SimPeriodic(a) ->
                PeriodicBegin([stock_data |-> a.stock_data, weights |-> weights,
                               initial_amount |-> a.initial_amount,
                               frequency |-> a.frequency])
          [] a.simulator = "apply_rebalancing" /\ ~SimPeriodic(a) ->
                hold(initialize_shares(a.stock_data, weights, a.initial_amount))
          [] a.simulator \in {"calculate_dca_returns", "calculate_conditional_dca_returns"} ->
                DcaBeginLocals(a.stock_data, weights, a.initial_amount)
          [] a.simulator = "simulate_trading" ->
                InitialBuys(a.stock_data, a, all_dates[1], 1,
                            [cash |-> R(a.initial_amount),
                             holdings |-> [s \in NonEmpty(a.stock_data) |-> R(0)],
                             transactions |-> <<>>,
                             portfolio_values |-> <<>>])
                    @@ [i |-> 1, all_dates |-> all_dates]

\* One pass of the simulator's loop over the dates.
SimStepLocals(a, st) ==
    LET weights == WeightsOf(a.assets)
    IN  CASE a.simulator = "calculate_portfolio_values" \/
             (a.simulator = "apply_rebalancing" /\ ~SimPeriodic(a)) ->
                [st EXCEPT !.i = st.i + 1,
                           !.portfolio_values = Append(@, SimResult(a)[st.i])]
          [] SimPeriodic(a) ->
                PeriodicStep([stock_data |-> a.stock_data, weights |-> weights,
                              initial_amount |-> a.initial_amount,
                              frequency |-> a.frequency], st)
          [] a.simulator = "calculate_dca_returns" ->
                DcaStepLocals(a.stock_data, weights, a.investment_amount,
                              a.investment_dates, st)
          [] a.simulator = "calculate_conditional_dca_returns" ->
                ConditionalStep(a.stock_data, weights, a.triggers, st)
          [] a.simulator = "simulate_trading" ->
                [TradingStep(a.stock_data, a.buy_conditions,
                             Fetched(a.stock_data, a.assets), st.i, st)
                    EXCEPT !.i = st.i + 1]

\* The share counts, the cash and the time series among the locals.
SimShares(a, st) == IF a.simulator = "simulate_trading" THEN st.holdings ELSE st.shares
SimCash(a, st) == IF a.simulator = "simulate_trading" THEN st.cash ELSE R(0)
SimSeries(a, st) ==
    IF a.simulator \in {"calculate_dca_returns", "calculate_conditional_dca_returns"}
    THEN st.results ELSE st.portfolio_values

\* The simulator up to its loop.  With no date in the union the other
\* simulators return at once; _simulate_trading reads all_dates[0].
SimBegin ==
    /\ pc = "call"
    /\ IF AllDates(args.stock_data) # <<>>
       THEN /\ loc' = SimBeginLocals(args)
            /\ pc' = "loop"
            /\ UNCHANGED ret
       ELSE IF args.simulator = "simulate_trading"
       THEN /\ ret' = IndexError
            /\ pc' = "raised"
            /\ UNCHANGED loc
       ELSE /\ ret' = SimResult(args)
            /\ pc' = "done"
            /\ UNCHANGED loc
    /\ UNCHANGED <<args, services>>

SimStep ==
    /\ pc = "loop"
    /\ loc.i <= Len(loc.all_dates)
    /\ \E st \in {SimStepLocals(args, loc)} : loc' = st
    /\ UNCHANGED <<args, ret, pc, services>>

SimReturn ==
    /\ pc = "loop"
    /\ loc.i > Len(loc.all_dates)
    /\ ret' = SimSeries(args, loc)
    /\ pc' = "done"
    /\ UNCHANGED <<args, loc, services>>

NextSimulators == SimBegin \/ SimStep \/ SimReturn

SpecSimulators == InitSimulators /\ [][NextSimulators]_vars

\* The stepped simulator returns what the simulator returns.
SimStepsAgree == pc = "done" => ret = SimResult(args)

\* The share count of a symbol, 0 when the simulator holds no entry for it.
Held(shares, s) == IF s \in DOMAIN shares THEN shares[s] ELSE R(0)

\* C15: every simulator starts each symbol with initial_amount * weight/100
\* divided by its close on the first date of the date union, and with no
\* shares when the symbol has no bar on that date; _simulate_trading records
\* one INITIAL transaction, dated the first date, per symbol it allocates.
C15_InitialAllocation ==
    (pc = "loop" /\ loc.i = 1) =>
        LET first == AllDates(args.stock_data)[1]
            initial(s) == {n \in 1..Len(loc.transactions) :
                            /\ loc.transactions[n].reason_code = "INITIAL"
                            /\ loc.transactions[n].symbol = s}
        IN  \A n \in 1..Len(args.assets) :
                LET s == args.assets[n].symbol
                    allocated == HasBar(args.stock_data, s, first)
                IN  /\ Held(SimShares(args, loc), s) =
                            IF allocated
                            THEN RDiv(RDiv(RMul(R(args.initial_amount), args.assets[n].weight),
                                           R(100)),
                                      R(args.stock_data.close[s][first]))
                            ELSE R(0)
                    /\ args.simulator = "simulate_trading" =>
                            /\ Cardinality(initial(s)) = IF allocated THEN 1 ELSE 0
                            /\ \A t \in initial(s) :
                                    loc.transactions[t].date = args.stock_data.dates[first]

\* The value, on date k, of the share counts that have a bar on k.
ValueOfBars(stock_data, shares, k) ==
    LET priced == {s \in DOMAIN shares : HasBar(stock_data, s, k)}
    IN  RSum([s \in priced |-> RMul(shares[s], R(stock_data.close[s][k]))], priced)

\* What a pass of a simulator's loop does with the symbols that have no bar.
C16_DateStep ==
    (pc = "loop" /\ pc' = "loop") =>
        LET k == loc.all_dates[loc.i]
            before == SimShares(args, loc)
            after == SimShares(args, loc')
            series == SimSeries(args, loc')
            value == series[Len(series)].value
        IN  /\ Len(series) = loc.i
            /\ \/ value = RAdd(SimCash(args, loc), ValueOfBars(args.stock_data, before, k))
               \/ value = ValueOfBars(args.stock_data, after, k)
            /\ \A s \in DOMAIN before :
                    ~HasBar(args.stock_data, s, k) => RLe(Held(after, s), before[s])

C18_EmptyUnionReturnsEmpty ==
    (AllDates(args.stock_data) = <<>> /\ pc \in {"done", "raised"}) =>
        pc = "done" /\ ret = <<>>

---------------------------------------------------------------------------
(* The four run entry points at their boundary: what each returns for a    *)
(* config and the bars the market has, the date range of the config        *)
(* applied by the data access object.                                      *)

\* ticker.history(start, end): the bars from start_date up to, not
\* including, end_date; none when start_date is later than end_date.
ticker_history(market, start_date, end_date) ==
    LET kept == SelectSeq([k \in 1..Len(market.dates) |-> k],
                          LAMBDA k : /\ DateLe(start_date, market.dates[k])
                                     /\ DateLt(market.dates[k], end_date))
    IN  [dates |-> [j \in 1..Len(kept) |-> market.dates[kept[j]]],
         close |-> [s \in DOMAIN market.close |->
                        [j \in 1..Len(kept) |-> market.close[s][kept[j]]]]]

BoundaryRanges ==
    { [start_date |-> <<2020, 1, 1>>, end_date |-> <<2020, 3, 31>>],
      [start_date |-> <<2020, 1, 10>>, end_date |-> <<2020, 3, 31>>],
      [start_date |-> <<2020, 3, 31>>, end_date |-> <<2020, 1, 1>>] }

BoundaryConfigs(entry) ==
    LET base == {[present |-> present, assets |-> assets,
                  start_date |-> range.start_date, end_date |-> range.end_date,
                  initial_amount |-> 1000] :
                    present \in {AllPresent, AllPresent \ {"initial_amount"}},
                    assets \in RunAssetLists, range \in BoundaryRanges}
    IN  CASE entry = "run_backtest" ->
                {b @@ [rebalance_frequency |-> f] :
                    b \in base, f \in {"none", "monthly"}}
          [] entry = "run_backtest_with_transactions" ->
                {b @@ [buy_conditions |-> c] : b \in base, c \in BuyConditions}
          [] entry = "run_periodic_dca" ->
                {b @@ [investment_amount |-> 100, frequency |-> "monthly",
                       frequency_config |-> [day_of_month |-> 1]] :
                    b \in {c \in base : c.present = AllPresent}}
          [] entry = "run_conditional_dca" ->
                {b @@ [conditions |-> c] :
                    b \in {c \in base : c.present = AllPresent},
                    c \in {<<PriceDrop(10, 2000, 7)>>, <<Drawdown(10, 1000, 10, 252)>>}}

Entries == {"run_backtest", "run_backtest_with_transactions", "run_periodic_dca",
            "run_conditional_dca"}

InitBoundary ==
    /\ \E entry \in Entries :
        \E config \in BoundaryConfigs(entry), market \in Markets :
            args = [entry |-> entry, config |-> config, market |-> market]
    /\ ret = Idle
    /\ pc = "call"
    /\ loc = Idle
    /\ ServicesIdle

\* The bars the data access object returns for the config.
InRange(a) == ticker_history(a.market, a.config.start_date, a.config.end_date)

BoundaryRunBacktest ==
    /\ pc = "call"
    /\ args.entry = "run_backtest"
    /\ ret' = run_backtest(args.config, InRange(args))
    /\ pc' = "done"
    /\ UNCHANGED <<args, loc, services>>

\* The dict returned has the transactions of the ledger when the run
\* completed (line 113) and none when it failed (lines 122-127).
BoundaryRunBacktestWithTransactions ==
    /\ pc = "call"
    /\ args.entry = "run_backtest_with_transactions"
    /\ \E out \in {run_backtest_with_transactions(transactions, args.config, InRange(args))} :
        /\ ret' = out.result @@
                    [transactions |-> IF out.result.status = "completed"
                                      THEN out.transactions ELSE <<>>]
        /\ transactions' = out.transactions
    /\ pc' = "done"
    /\ UNCHANGED <<args, loc, history>>

BoundaryRunPeriodicDca ==
    /\ pc = "call"
    /\ args.entry = "run_periodic_dca"
    /\ ret' = run_periodic_dca(args.config, InRange(args))
    /\ pc' = "done"
    /\ UNCHANGED <<args, loc, services>>

BoundaryRunConditionalDca ==
    /\ pc = "call"
    /\ args.entry = "run_conditional_dca"
    /\ ret' = run_conditional_dca(args.config, InRange(args))
    /\ pc' = "done"
    /\ UNCHANGED <<args, loc, services>>

NextBoundary ==
    \/ BoundaryRunBacktest
    \/ BoundaryRunBacktestWithTransactions
    \/ BoundaryRunPeriodicDca
    \/ BoundaryRunConditionalDca

SpecBoundary == InitBoundary /\ [][NextBoundary]_vars

\* No requested symbol has a bar in the requested range.
NoBarInRange(a) ==
    AllDates(get_multiple_stocks_data(SymbolsOf(a.config.assets), InRange(a))) = <<>>

\* The metrics a result carries.
MetricsOf(result) ==
    IF "performance" \in DOMAIN result THEN result.performance ELSE result.risk_metrics

\* C17: when no requested symbol has a bar in the requested range,
\* run_backtest, run_periodic_dca and run_conditional_dca return status
\* failed with a non-empty error message.
C17_NoDataFails ==
    (/\ pc = "done"
     /\ args.entry # "run_backtest_with_transactions"
     /\ NoBarInRange(args)) =>
        ret.status = "failed" /\ ret.error # NoError

C20_ReversedRangeRejected ==
    (pc = "done" /\ DateLt(args.config.end_date, args.config.start_date)) =>
        ret.status = "failed" /\ ret.time_series = <<>>

---------------------------------------------------------------------------
(* _simulate_trading under buy_conditions that carry the switches          *)
(* enable_macd and enable_support of the docstring of                      *)
(* run_backtest_with_transactions.                                         *)

SwitchConditions ==
    { [enable_macd |-> FALSE, enable_support |-> FALSE],
      [enable_macd |-> FALSE],
      [enable_support |-> FALSE],
      [enable_macd |-> TRUE, enable_support |-> TRUE] }

InitSwitches ==
    /\ \E buy_conditions \in SwitchConditions, market \in TrMarkets :
        LET config == [present |-> AllPresent,
                       assets |-> <<Asset("A", R(60)), Asset("B", R(40))>>,
                       start_date |-> <<2020, 1, 1>>, end_date |-> <<2020, 3, 31>>,
                       initial_amount |-> 1000, buy_conditions |-> buy_conditions]
        IN  args = [config |-> config,
                    stock_data |-> get_multiple_stocks_data(SymbolsOf(config.assets),
                                                            market)]
    /\ ret = Idle
    /\ pc = "call"
    /\ loc = Idle
    /\ ServicesIdle

SpecSwitches == InitSwitches /\ [][NextTrading]_vars

\* The reason code of the evaluation the loop is about to make, "" when the
\* symbol has no bar on the date and nothing is evaluated.
Evaluated ==
    IF pc = "symbol" /\ loc.n <= Len(Fetched(args.stock_data, args.config.assets))
    THEN LET symbol == Fetched(args.stock_data, args.config.assets)[loc.n]
             k == AllDates(args.stock_data)[loc.i]
         IN  IF HasBar(args.stock_data, symbol, k)
             THEN LET signal == SignalOn(args.stock_data, args.config.buy_conditions,
                                         symbol, k)
                  IN  IF signal.should_buy THEN signal.reason_code ELSE ""
             ELSE ""
    ELSE ""

\* C21: with enable_macd false in buy_conditions no evaluation of the run
\* returns the MACD golden-cross reason, and with enable_support false no
\* evaluation returns the support-level reason.
C21_SwitchedOffRulesSilent ==
    /\ ~Get(args.config.buy_conditions, "enable_macd", TRUE) =>
            Evaluated # "MACD_GOLDEN_CROSS"
    /\ ~Get(args.config.buy_conditions, "enable_support", TRUE) =>
            Evaluated # "SUPPORT_LEVEL"

---------------------------------------------------------------------------
(* What a rebalance does to the holdings, and how the time series of the   *)
(* periodic-rebalance simulation flags it; both on SpecRebalance.          *)

\* The pass of the loop that is about to run executes a rebalance.
RebalanceDue ==
    /\ pc = "loop"
    /\ loc.i <= Len(loc.all_dates)
    /\ should_rebalance(args.stock_data.dates[loc.all_dates[loc.i]],
                        args.stock_data.dates[loc.last_rebalance_date],
                        args.frequency)

\* C22: a rebalance executed on a date d leaves holdings that, valued at
\* d's closes, are worth exactly the portfolio value computed for d before
\* it, and every symbol held before the rebalance is still held after it.
C22_RebalanceConservesValue ==
    RebalanceDue =>
        LET k == loc.all_dates[loc.i]
            after == PeriodicStep(args, loc).shares
        IN  /\ HoldingsValue(args.stock_data, after, k)
                = HoldingsValue(args.stock_data, loc.shares, k)
            /\ DOMAIN loc.shares \subseteq DOMAIN after


\* rebalance_count of calculate_rebalancing_metrics: the entries flagged
\* rebalanced.
rebalance_count(portfolio_values_with_rebalance) ==
    Cardinality({j \in 1..Len(portfolio_values_with_rebalance) :
                    portfolio_values_with_rebalance[j].rebalanced})

\* C27: an entry of the time series has rebalanced = true exactly on the
\* dates on which a rebalance was executed, so rebalance_count equals the
\* number of rebalances executed.
C27_FlagMarksExecutedRebalances ==
    pc = "loop" =>
        /\ \A j \in 1..Len(loc.portfolio_values) :
              loc.portfolio_values[j].rebalanced
                  <=> loc.portfolio_values[j].date \in RebalanceDates
        /\ rebalance_count(loc.portfolio_values) = Len(loc.rebalance_history)

---------------------------------------------------------------------------
(* What a contribution of a DCA simulation buys, on SpecSimulators.        *)

\* C24: in both DCA simulations, whenever total_invested grows by a
\* contribution on a date, shares worth exactly that amount at that date's
\* closes are added to the holdings, also when a weighted symbol has no bar
\* on the date.
C24_InvestedMoneyBuysShares ==
    (/\ pc = "loop"
     /\ loc.i <= Len(loc.all_dates)
     /\ args.simulator \in {"calculate_dca_returns", "calculate_conditional_dca_returns"}) =>
        LET k == loc.all_dates[loc.i]
            after == SimStepLocals(args, loc)
            contribution == RSub(after.total_invested, loc.total_invested)
            added == [s \in DOMAIN after.shares |->
                        RSub(after.shares[s], Held(loc.shares, s))]
        IN  RLt(R(0), contribution) =>
                ValueOfBars(args.stock_data, added, k) = contribution

---------------------------------------------------------------------------
(* run_conditional_dca step by step: the triggers are detected, then the   *)
(* simulation runs over the dates of the date union and the result is      *)
(* built.                                                                  *)

\* One condition, a condition that is shadowed by the cooldown of the one
\* before it, and two conditions without cooldown.
CdConditionLists ==
    { <<PriceDrop(10, 2000, 7)>>,
      <<PriceDrop(10, 500, 0), PriceDrop(5, 2000, 7)>>,
      <<PriceDrop(10, 500, 0), PriceDrop(5, 2000, 0)>> }

InitConditional ==
    /\ \E conditions \in CdConditionLists, market \in TrMarkets :
        args = [assets |-> SimAssets, initial_amount |-> 1000,
                conditions |-> conditions, market |-> market]
    /\ ret = Idle
    /\ pc = "call"
    /\ loc = Idle
    /\ ServicesIdle

\* Lines 131-149: the data is fetched and the triggers are detected.
CdDetect ==
    /\ pc = "call"
    /\ \E stock_data \in {get_multiple_stocks_data(SymbolsOf(args.assets), args.market)} :
        IF AllDates(stock_data) = <<>>
        THEN /\ ret' = DcaFailed(NoData)
             /\ pc' = "done"
             /\ UNCHANGED loc
        ELSE /\ loc' = [stock_data |-> stock_data,
                        triggers |-> detect_condition_triggers(stock_data, args.conditions)]
             /\ pc' = "detected"
             /\ UNCHANGED ret
    /\ UNCHANGED <<args, services>>

\* Lines 342-375 of _calculate_conditional_dca_returns: the initial purchase.
CdBegin ==
    /\ pc = "detected"
    /\ loc' = loc @@ DcaBeginLocals(loc.stock_data, WeightsOf(args.assets),
                                    args.initial_amount)
    /\ pc' = "loop"
    /\ UNCHANGED <<args, ret, services>>

\* Lines 378-404: one date.
CdStep ==
    /\ pc = "loop"
    /\ loc.i <= Len(loc.all_dates)
    /\ loc' = ConditionalStep(loc.stock_data, WeightsOf(args.assets), loc.triggers, loc)
    /\ UNCHANGED <<args, ret, pc, services>>

\* Lines 406-410 and 157-172: the result, with total_triggers = len(triggers).
CdReturn ==
    /\ pc = "loop"
    /\ loc.i > Len(loc.all_dates)
    /\ ret' = DcaCompleted(DcaResult(loc), Len(loc.triggers))
    /\ pc' = "done"
    /\ UNCHANGED <<args, loc, services>>

NextConditional == CdDetect \/ CdBegin \/ CdStep \/ CdReturn

SpecConditional == InitConditional /\ [][NextConditional]_vars

\* The stepped run returns what run_conditional_dca returns.
CdStepsAgree ==
    pc = "done" => ret = run_conditional_dca(args, args.market)

RECURSIVE SumOfAmounts(_)
SumOfAmounts(triggers) ==
    IF triggers = <<>> THEN 0
    ELSE triggers[1].amount + SumOfAmounts(Tail(triggers))

\* C23: the final total_invested of a conditional DCA run is initial_amount
\* plus the sum of the amounts of all the triggers detected for the run.
C23_TotalInvestedCountsTriggers ==
    (pc = "done" /\ ret.status = "completed") =>
        /\ ret.count = Len(loc.triggers)
        /\ ret.performance.total_invested =
                R(args.initial_amount + SumOfAmounts(loc.triggers))

---------------------------------------------------------------------------
(* What a price_drop trigger says about the closes, on SpecTriggers.       *)

\* Symbol s has a bar on date k that closes lower than its previous bar.
ClosedLower(stock_data, s, k) ==
    /\ HasBar(stock_data, s, k)
    /\ \E j \in 1..(k - 1) :
        /\ HasBar(stock_data, s, j)
        /\ \A h \in (j + 1)..(k - 1) : ~HasBar(stock_data, s, h)
        /\ stock_data.close[s][k] < stock_data.close[s][j]

\* C25: a price_drop trigger is emitted on a date only if some symbol's
\* close on that date is lower than the same symbol's previous close; a
\* symbol missing or newly appearing on a date produces none by itself.
C25_PriceDropNeedsLowerClose ==
    pc = "done" =>
        \A n \in 1..Len(ret) :
            ret[n].type = "price_drop" =>
                \E k \in 1..Len(args.stock_data.dates) :
                    /\ args.stock_data.dates[k] = ret[n].date
                    /\ \E s \in DOMAIN args.stock_data.close :
                            ClosedLower(args.stock_data, s, k)

---------------------------------------------------------------------------
(* _simulate_trading on configs whose weights sum to 100, among them one   *)
(* that names a symbol twice.                                              *)

AllocationAssetLists ==
    { <<Asset("A", R(60)), Asset("B", R(40))>>,
      <<Asset("A", R(10)), Asset("B", R(90))>>,
      <<Asset("B", R(100))>>,
      <<Asset("B", R(50)), Asset("B", R(50))>> }

InitAllocation ==
    /\ \E assets \in AllocationAssetLists, buy_conditions \in BuyConditions,
          market \in TrMarkets :
        LET config == [present |-> AllPresent, assets |-> assets,
                       start_date |-> <<2020, 1, 1>>, end_date |-> <<2020, 3, 31>>,
                       initial_amount |-> 1000, buy_conditions |-> buy_conditions]
        IN  args = [config |-> config,
                    stock_data |-> get_multiple_stocks_data(SymbolsOf(assets), market)]
    /\ ret = Idle
    /\ pc = "call"
    /\ loc = Idle
    /\ ServicesIdle

SpecAllocation == InitAllocation /\ [][NextTrading]_vars

\* The weights of the assets sum to exactly 100 and every asset has a bar
\* on the first date of the date union.
FullyAllocated ==
    /\ SumWeights(args.config.assets, 1) = R(100)
    /\ \A i \in 1..Len(args.config.assets) :
            HasBar(args.stock_data, args.config.assets[i].symbol,
                   AllDates(args.stock_data)[1])

\* Cash is 0 and the ledger holds INITIAL transactions only.
NoCashNoBuys ==
    /\ loc.cash = R(0)
    /\ \A e \in 1..Len(loc.portfolio_values) : loc.portfolio_values[e].cash = R(0)
    /\ \A n \in 1..Len(loc.transactions) : loc.transactions[n].reason_code = "INITIAL"

\* C26: if the weights sum to exactly 100 and every weighted asset has a
\* bar on the first date, cash is 0 after the initial allocation and on
\* every later date, no signal-triggered buy is executed and the ledger of
\* the run holds only the INITIAL transactions.
C26_FullyInvestedNeverBuys ==
    (InSimulation /\ FullyAllocated) => NoCashNoBuys

\* The same for configs that name each symbol once.
FullyInvestedDistinctSymbols ==
    (/\ InSimulation
     /\ FullyAllocated
     /\ Len(Keys(args.config.assets)) = Len(args.config.assets)) => NoCashNoBuys

---------------------------------------------------------------------------
(* run_backtest on a single asset under the rebalance frequencies, on      *)
(* SpecBacktest.                                                           *)

\* The values and the daily returns of a time series.
ValuesOf(time_series) == [i \in 1..Len(time_series) |-> time_series[i].value]
DailyReturnsOf(time_series) == [i \in 1..Len(time_series) |-> time_series[i].daily_return]

\* C28: for a single asset of weight 100 run_backtest produces, with a
\* periodic rebalance_frequency, the value series, the daily_return series
\* and the risk metrics it produces with rebalance_frequency none.
C28_SingleAssetSameUnderRebalancing ==
    (/\ pc = "done"
     /\ ret.status = "completed"
     /\ Len(args.config.assets) = 1
     /\ args.config.assets[1].weight = R(100)
     /\ args.config.rebalance_frequency \in {"monthly", "quarterly", "yearly"}) =>
        LET none == run_backtest([args.config EXCEPT !.rebalance_frequency = "none"],
                                 args.market)
        IN  /\ ValuesOf(ret.time_series) = ValuesOf(none.time_series)
            /\ DailyReturnsOf(ret.time_series) = DailyReturnsOf(none.time_series)
            /\ ret.risk_metrics = none.risk_metrics

---------------------------------------------------------------------------
(* The portfolio API: the handlers of portfolio_controller on the shared   *)
(* PortfolioDAO instance, one request after the other.  loc holds the      *)
(* instance (portfolios, next_id), args the last request and ret its       *)
(* response.  The id port_n is modelled by the number n.                   *)

MaxPortfolios == 3

\* Asset lists of a request: none, weights that sum to 100 and to 120.
ApiAssetLists ==
    { <<>>,
      <<Asset("A", R(60)), Asset("B", R(40))>>,
      <<Asset("A", R(60)), Asset("B", R(60))>> }

\* request.json of a create request.
CreateBodies ==
    {EmptyDict, [name |-> "first"]}
    \cup {[name |-> "first", assets |-> assets] : assets \in ApiAssetLists}

\* request.json of an update request.
UpdateBodies ==
    {EmptyDict, [name |-> "renamed"]}
    \cup {[assets |-> assets] : assets \in ApiAssetLists}

Response(code, body) == [code |-> code, body |-> body]

\* PortfolioDAO.create_portfolio
dao_create_portfolio(dao, portfolio_data) ==
    [dao |-> [portfolios |-> (dao.next_id :> (("portfolio_id" :> dao.next_id)
                                               @@ portfolio_data))
                              @@ dao.portfolios,
              next_id |-> dao.next_id + 1],
     portfolio_id |-> dao.next_id]

\* PortfolioDAO.update_portfolio: dict.update on the stored dict.
dao_update_portfolio(dao, portfolio_id, data) ==
    IF portfolio_id \in DOMAIN dao.portfolios
    THEN [dao |-> [dao EXCEPT !.portfolios[portfolio_id] = data @@ @], success |-> TRUE]
    ELSE [dao |-> dao, success |-> FALSE]

\* PortfolioDAO.delete_portfolio
dao_delete_portfolio(dao, portfolio_id) ==
    IF portfolio_id \in DOMAIN dao.portfolios
    THEN [dao |-> [dao EXCEPT !.portfolios =
                        [id \in DOMAIN dao.portfolios \ {portfolio_id} |->
                            dao.portfolios[id]]],
          success |-> TRUE]
    ELSE [dao |-> dao, success |-> FALSE]

InitPortfolioApi ==
    /\ loc = [portfolios |-> EmptyDict, next_id |-> 1]
    /\ args = Idle
    /\ ret = Idle
    /\ pc = "serving"
    /\ ServicesIdle

\* POST /api/portfolio/create
create_portfolio ==
    /\ loc.next_id <= MaxPortfolios
    /\ \E data \in CreateBodies :
        /\ args' = [request |-> "create", data |-> data]
        /\ IF data = EmptyDict
           THEN ret' = Response(400, "No data provided") /\ UNCHANGED loc
           ELSE IF "name" \notin DOMAIN data \/ "assets" \notin DOMAIN data
           THEN ret' = Response(400, "Missing required field") /\ UNCHANGED loc
           ELSE IF data.assets = <<>>
           THEN ret' = Response(400, "At least one asset is required") /\ UNCHANGED loc
           ELSE IF WeightSumOff(data.assets)
           THEN ret' = Response(400, "Weights must sum to 100%") /\ UNCHANGED loc
           ELSE \E out \in {dao_create_portfolio(loc, data)} :
                    /\ loc' = out.dao
                    /\ ret' = Response(201, out.portfolio_id)
    /\ UNCHANGED <<pc, services>>

\* PUT /api/portfolio/<portfolio_id>: the weights are validated only when
\* the body has a non-empty asset list.
update_portfolio ==
    /\ \E portfolio_id \in 1..MaxPortfolios, data \in UpdateBodies :
        /\ args' = [request |-> "update", portfolio_id |-> portfolio_id, data |-> data]
        /\ IF data = EmptyDict
           THEN ret' = Response(400, "No data provided") /\ UNCHANGED loc
           ELSE IF /\ "assets" \in DOMAIN data
                   /\ data.assets # <<>>
                   /\ WeightSumOff(data.assets)
           THEN ret' = Response(400, "Weights must sum to 100%") /\ UNCHANGED loc
           ELSE \E out \in {dao_update_portfolio(loc, portfolio_id, data)} :
                    /\ loc' = out.dao
                    /\ ret' = IF out.success THEN Response(200, portfolio_id)
                              ELSE Response(404, "Portfolio not found")
    /\ UNCHANGED <<pc, services>>

\* DELETE /api/portfolio/<portfolio_id>
delete_portfolio ==
    /\ \E portfolio_id \in 1..MaxPortfolios :
        /\ args' = [request |-> "delete", portfolio_id |-> portfolio_id]
        /\ \E out \in {dao_delete_portfolio(loc, portfolio_id)} :
            /\ loc' = out.dao
            /\ ret' = IF out.success THEN Response(200, portfolio_id)
                      ELSE Response(404, "Portfolio not found")
    /\ UNCHANGED <<pc, services>>

\* POST /api/portfolio/<portfolio_id>/clone, the body without a name.
clone_portfolio ==
    /\ loc.next_id <= MaxPortfolios
    /\ \E portfolio_id \in 1..MaxPortfolios :
        /\ args' = [request |-> "clone", portfolio_id |-> portfolio_id]
        /\ IF portfolio_id \notin DOMAIN loc.portfolios
           THEN ret' = Response(404, "Portfolio not found") /\ UNCHANGED loc
           ELSE \E out \in {dao_create_portfolio(
                                loc, [name |-> "Cloned Portfolio",
                                      assets |-> loc.portfolios[portfolio_id].assets,
                                      description |-> "Cloned from"])} :
                    /\ loc' = out.dao
                    /\ ret' = Response(201, out.portfolio_id)
    /\ UNCHANGED <<pc, services>>

NextPortfolioApi ==
    create_portfolio \/ update_portfolio \/ delete_portfolio \/ clone_portfolio

SpecPortfolioApi == InitPortfolioApi /\ [][NextPortfolioApi]_vars

\* Every stored portfolio has assets, and their weights sum to 100 +- 0.01.
StoredPortfoliosValid ==
    \A id \in DOMAIN loc.portfolios :
        /\ loc.portfolios[id].assets # <<>>
        /\ ~WeightSumOff(loc.portfolios[id].assets)

\* A request answered with an error leaves the store as it was.
ErrorLeavesStore == ret'.code >= 400 => loc' = loc

\* C29: after any sequence of create, update, clone and delete requests
\* every stored portfolio has a non-empty asset list whose weights sum to
\* 100 within 0.01; a request answered with an error leaves the store
\* unchanged.
C29_StoredPortfoliosStayValid == []StoredPortfoliosValid /\ [][ErrorLeavesStore]_vars

---------------------------------------------------------------------------
(* Concurrent create_portfolio calls on the shared PortfolioDAO instance.  *)
(* Each caller runs the statements of PortfolioDAO.create_portfolio one at *)
(* a time, the read and the write of self.next_id += 1 apart, as threads   *)
(* of one interpreter do; deletes of stored portfolios come in between.    *)
(* loc holds the instance, the locals of each caller and the ids deleted.  *)

MaxCallers == 3

Callers == 1..MaxCallers

InitConcurrentCreate ==
    /\ loc = [portfolios |-> EmptyDict, next_id |-> 1,
              portfolio_id |-> [p \in Callers |-> 0],
              loaded |-> [p \in Callers |-> 0],
              deleted |-> {}]
    /\ args = [p \in Callers |->
                [name |-> p, assets |-> <<Asset("A", R(60)), Asset("B", R(40))>>]]
    /\ ret = [p \in Callers |-> Idle]
    /\ pc = [p \in Callers |-> "call"]
    /\ ServicesIdle

\* Line 19: portfolio_id = f"port_{self.next_id}"
CcFormatId(p) ==
    /\ pc[p] = "call"
    /\ loc' = [loc EXCEPT !.portfolio_id[p] = loc.next_id]
    /\ pc' = [pc EXCEPT ![p] = "formatted"]
    /\ UNCHANGED <<args, ret, services>>

\* Line 20, self.next_id += 1: the attribute is read ...
CcLoadNextId(p) ==
    /\ pc[p] = "formatted"
    /\ loc' = [loc EXCEPT !.loaded[p] = loc.next_id]
    /\ pc' = [pc EXCEPT ![p] = "loaded"]
    /\ UNCHANGED <<args, ret, services>>

\* ... and written back, one more.
CcStoreNextId(p) ==
    /\ pc[p] = "loaded"
    /\ loc' = [loc EXCEPT !.next_id = loc.loaded[p] + 1]
    /\ pc' = [pc EXCEPT ![p] = "stored"]
    /\ UNCHANGED <<args, ret, services>>

\* Lines 21-22: the portfolio is put under its id.
CcPut(p) ==
    /\ pc[p] = "stored"
    /\ loc' = [loc EXCEPT
                !.portfolios = (loc.portfolio_id[p] :>
                                    (("portfolio_id" :> loc.portfolio_id[p]) @@ args[p]))
                               @@ loc.portfolios]
    /\ pc' = [pc EXCEPT ![p] = "put"]
    /\ UNCHANGED <<args, ret, services>>

\* Line 23: return portfolio_id
CcReturn(p) ==
    /\ pc[p] = "put"
    /\ ret' = [ret EXCEPT ![p] = loc.portfolio_id[p]]
    /\ pc' = [pc EXCEPT ![p] = "returned"]
    /\ UNCHANGED <<args, loc, services>>

\* PortfolioDAO.delete_portfolio of a stored portfolio.
CcDelete(portfolio_id) ==
    /\ portfolio_id \in DOMAIN loc.portfolios
    /\ loc' = [loc EXCEPT
                !.portfolios = [id \in DOMAIN loc.portfolios \ {portfolio_id} |->
                                    loc.portfolios[id]],
                !.deleted = @ \cup {portfolio_id}]
    /\ UNCHANGED <<args, ret, pc, services>>

NextConcurrentCreate ==
    \/ \E p \in Callers : CcFormatId(p)
    \/ \E p \in Callers : CcLoadNextId(p)
    \/ \E p \in Callers : CcStoreNextId(p)
    \/ \E p \in Callers : CcPut(p)
    \/ \E p \in Callers : CcReturn(p)
    \/ \E portfolio_id \in 1..(MaxCallers + 1) : CcDelete(portfolio_id)

SpecConcurrentCreate == InitConcurrentCreate /\ [][NextConcurrentCreate]_vars

\* C30: under any interleaving of concurrent create_portfolio calls each
\* call returns an id no other call returned, the id of a deleted portfolio
\* is never used again, and every created portfolio is retrievable under
\* its id until it is deleted.
C30_ConcurrentCreatesKeepIdsUnique ==
    /\ \A p, q \in Callers :
            (p # q /\ pc[p] = "returned" /\ pc[q] = "returned") => ret[p] # ret[q]
    /\ loc.deleted \cap DOMAIN loc.portfolios = {}
    /\ \A p \in Callers :
            (pc[p] = "returned" /\ ret[p] \notin loc.deleted) =>
                /\ ret[p] \in DOMAIN loc.portfolios
                /\ loc.portfolios[ret[p]].name = args[p].name

=============================================================================
